---- MODULE Spec2Model ----
(***************************************************************************)
(* Model of MACE:                                                          *)
(*   - the DepthToSpace operator tests (mace/ops/depth_to_space_test.cc):  *)
(*     the test net, its tensors and the CPU and GPU pipelines the tests   *)
(*     build, specification SpecOps;                                       *)
(*   - the run harness (mace/tools/mace_run.cc): RunModel's create loop,   *)
(*     warm up run, measured rounds and output writing, specification Spec *)
(*     (at most MaxFailures failing calls) and SpecFair (any call may      *)
(*     fail, with fairness of the successful outcomes);                    *)
(*   - the Graph & Scheduler: Kahn's order, transform nodes and the walk   *)
(*     of one Run, specification SpecSched;                                *)
(*   - ParseShape and the element counts taken from a parsed shape         *)
(*     (mace_run.cc), specification SpecParse;                             *)
(*   - Main's argument checks and restart rounds and the process's main    *)
(*     (mace_run.cc), specification SpecMain.                              *)
(* Tensors are records [shape, data]: data is the flat buffer in memory    *)
(* order (1-based sequence), shape the logical extents.  A float value is  *)
(* modelled by the integer it holds; half precision keeps HalfSigBits      *)
(* significant bits of it.                                                 *)
(***************************************************************************)
EXTENDS Integers, Sequences, FiniteSets, TLC

(* ------------------------------------------------------------------ *)
(* Bounds of the operator tests                                        *)
(* ------------------------------------------------------------------ *)
MaxN == 2
MaxH == 2
MaxW == 2
MaxC == 5
MaxB == 2
MaxSeed == 1

(* ------------------------------------------------------------------ *)
(* Bounds of the run harness                                           *)
(* ------------------------------------------------------------------ *)
MaxRound == 2       \* largest FLAGS_round
MaxFailures == 2    \* failing Create / Run calls in one RunModel
MaxDuration == 2    \* longest Run, in clock ticks of NowMicros
MaxEntries == 2     \* entries of the input directory

(* ------------------------------------------------------------------ *)
(* Bound of the Graph & Scheduler                                      *)
(* ------------------------------------------------------------------ *)
MaxNodes == 3       \* serialized nodes of a graph

(* Significant bits of a half precision value (1 implicit + 10 stored). *)
HalfSigBits == 11
(* Lanes of one image pixel (CL_RGBA).                                  *)
PixelLanes == 4

VARIABLES
    (* operator tests *)
    tcase,      \* parameters of the running test (template and call arguments)
    net,        \* OpsTestNet workspace: tensor name -> tensor
    tpc,        \* position inside RunDepthToSpace / RandomTest
    verdict,    \* outcome of ExpectTensorNear: "none", "pass", "fail"
    op_status,  \* status of the test's last net.RunOp, "none" before it
    (* run harness: RunModel *)
    flags,                  \* FLAGS_round, FLAGS_input_dir, FLAGS_output_dir, FLAGS_benchmark
    pc,                     \* position inside RunModel
    engine,                 \* the MaceEngine `engine` points to
    create_engine_status,   \* status of the last Create call
    warmup_status,          \* status of the last warm up Run
    run_status,             \* status of the last measured Run
    i,                      \* round index of the measured loop
    total_run_duration,     \* sum the average is computed from
    warmup_millis,          \* reported warm up latency (micros, before /1000.0)
    model_run_millis,       \* reported average latency: [num, den]
    outputs,                \* which Run call last filled the output buffers
    files,                  \* output files written so far
    dir,                    \* input_dir mode: entries left and input_file_count
    ret,                    \* RunModel's outcome: "none", "true", "false", "abort"
    calls,                  \* record of the engine API calls made so far
    model_weights_data,     \* bytes of the read-only weight region
    inputs,                 \* input tensors: shape, elements last read, from where
    inputs_size,            \* the map inputs_size (input -> element count)
    driver,                 \* "bounded": at most MaxFailures failing calls;
                            \* "flaky": any Create or Run call may fail
    metadata,               \* the round's RunMetadata: Run calls it was handed to
    op_stat,                \* benchmark::OpStat: the metadata objects aggregated
    (* Graph & Scheduler *)
    graph,          \* the deserialized graph: producers and layout of each node
    topo,           \* Kahn's order of the serialized nodes, as far as computed
    order,          \* execution order, synthetic transform nodes included
    spc,            \* position of the Scheduler
    dispatched,     \* nodes dispatched in this Run, each with its status
    sched_status,   \* status the Scheduler returned to the Engine
    (* ParseShape and the element counts *)
    str,            \* ParseShape's argument, a sequence of characters
    tmp,            \* the part of str not yet parsed
    shape_vec,      \* the vector ParseShape appends to
    ppc,            \* position inside ParseShape and the counting that follows
    sizes,          \* element counts computed from shape_vec
    (* Main and main *)
    argv,           \* the command line flags Main reads
    mpc,            \* position inside Main
    restart_i,      \* index of the restart loop
    main_ret,       \* Main's local `ret`
    main_result,    \* value Main returned
    exit_status,    \* exit status of the process
    past_end        \* elements read past the end of a Split list

opsVars == <<tcase, net, tpc, verdict, op_status>>

runVars == <<flags, pc, engine, create_engine_status, warmup_status, run_status,
             i, total_run_duration, warmup_millis, model_run_millis, outputs,
             files, dir, ret, calls, model_weights_data, inputs, inputs_size,
             driver, metadata, op_stat>>

schedVars == <<graph, topo, order, spc, dispatched, sched_status>>

parseVars == <<str, tmp, shape_vec, ppc, sizes>>

mainVars == <<argv, mpc, restart_i, main_ret, main_result, exit_status, past_end>>

vars == <<opsVars, runVars, schedVars, parseVars, mainVars>>

(* ------------------------------------------------------------------ *)
(* Tensors                                                             *)
(* ------------------------------------------------------------------ *)
NoTensor == [shape |-> <<>>, data |-> <<>>]

Product(shape) == shape[1] * shape[2] * shape[3] * shape[4]

Abs(x) == IF x < 0 THEN -x ELSE x

(* Flat (0-based) offset of a rank-4 index in a dense buffer of `shape`. *)
Offset(shape, i1, i2, i3, i4) ==
    ((i1 * shape[2] + i2) * shape[3] + i3) * shape[4] + i4

(* The rank-4 index (0-based) of flat offset k in a buffer of `shape`. *)
Unravel(shape, k) ==
    << k \div (shape[2] * shape[3] * shape[4]),
       (k \div (shape[3] * shape[4])) % shape[2],
       (k \div shape[4]) % shape[3],
       k % shape[4] >>

RoundUpDiv4(c) == (c + PixelLanes - 1) \div PixelLanes

(* ------------------------------------------------------------------ *)
(* Scalar types                                                        *)
(* ------------------------------------------------------------------ *)
(* Number of low bits a value loses when narrowed to half precision.   *)
RECURSIVE DroppedBits(_)
DroppedBits(v) == IF v < 2 ^ HalfSigBits THEN 0 ELSE 1 + DroppedBits(v \div 2)

(* float -> half, round to nearest, ties to even; a half is modelled by   *)
(* the value it holds, so half -> float widening is the identity on it.   *)
ToHalf(v) ==
    LET e == DroppedBits(v)
        q == v \div (2 ^ e)
        r == v % (2 ^ e)
        up == (2 * r > 2 ^ e) \/ (2 * r = 2 ^ e /\ q % 2 = 1)
    IN IF e = 0 THEN v ELSE (IF up THEN q + 1 ELSE q) * (2 ^ e)

(* Narrowing of a float buffer element to the image's scalar type T.   *)
CopyDataBetweenDiffType(T, v) == IF T = "half" THEN ToHalf(v) ELSE v

(* ------------------------------------------------------------------ *)
(* Layout conversion                                                   *)
(* ------------------------------------------------------------------ *)
(* Dense transpose: output axis k is input axis dims[k].                *)
Transpose(t, dims) ==
    LET oshape == [k \in 1..4 |-> t.shape[dims[k]]]
        src(a, oi) == oi[CHOOSE k \in 1..4 : dims[k] = a]
    IN [shape |-> oshape,
        data  |-> [j \in 1..Product(oshape) |->
                     LET oi == Unravel(oshape, j - 1)
                     IN t.data[Offset(t.shape, src(1, oi), src(2, oi),
                                      src(3, oi), src(4, oi)) + 1]]]

(* OpsTestNet::TransformDataFormat between NHWC and NCHW. *)
TransformDataFormat(t, src_format, dst_format) ==
    IF src_format = "NHWC" /\ dst_format = "NCHW" THEN Transpose(t, <<1, 4, 2, 3>>)
    ELSE IF src_format = "NCHW" /\ dst_format = "NHWC" THEN Transpose(t, <<1, 3, 4, 2>>)
    ELSE t

(* ------------------------------------------------------------------ *)
(* Buffer <-> image (BufferType::IN_OUT_CHANNEL)                        *)
(* An image of logical NHWC shape [N,H,W,C] has N*H rows and            *)
(* RoundUpDiv4(C)*W pixels per row; pixel (cblk*W + w, n*H + h) holds   *)
(* channels 4*cblk .. 4*cblk+3, zero beyond C.                          *)
(* ------------------------------------------------------------------ *)
ImageSize(shape) ==
    shape[1] * shape[2] * RoundUpDiv4(shape[4]) * shape[3] * PixelLanes

PixelOffset(shape, n, h, w, c) ==
    ((n * shape[2] + h) * (RoundUpDiv4(shape[4]) * shape[3])
        + (c \div PixelLanes) * shape[3] + w) * PixelLanes + (c % PixelLanes)

(* The NHWC index <<n,h,w,c>> stored at flat image offset k. *)
PixelIndex(shape, k) ==
    LET lane == k % PixelLanes
        px == k \div PixelLanes
        width == RoundUpDiv4(shape[4]) * shape[3]
        x == px % width
        y == px \div width
    IN << y \div shape[2], y % shape[2], x % shape[3],
          (x \div shape[3]) * PixelLanes + lane >>

BufferToImage(t, T) ==
    [shape |-> t.shape,
     data  |-> [j \in 1..ImageSize(t.shape) |->
                  LET at == PixelIndex(t.shape, j - 1)
                  IN IF at[4] < t.shape[4]
                     THEN CopyDataBetweenDiffType(
                              T, t.data[Offset(t.shape, at[1], at[2], at[3], at[4]) + 1])
                     ELSE 0]]

ImageToBuffer(img) ==
    [shape |-> img.shape,
     data  |-> [j \in 1..Product(img.shape) |->
                  LET at == Unravel(img.shape, j - 1)
                  IN img.data[PixelOffset(img.shape, at[1], at[2], at[3], at[4]) + 1]]]

(* ------------------------------------------------------------------ *)
(* DepthToSpace kernels                                                *)
(* ------------------------------------------------------------------ *)
(* CPU kernel, channel first: input [N, D, H, W], output               *)
(* [N, D/(b*b), H*b, W*b].                                              *)
DepthToSpaceNCHW(t, block_size) ==
    LET input_depth == t.shape[2]
        output_depth == input_depth \div (block_size * block_size)
        oshape == << t.shape[1], output_depth,
                     t.shape[3] * block_size, t.shape[4] * block_size >>
    IN [shape |-> oshape,
        data  |-> [j \in 1..Product(oshape) |->
                     LET o == Unravel(oshape, j - 1)
                         in_h == o[3] \div block_size
                         offset_h == o[3] % block_size
                         in_w == o[4] \div block_size
                         offset_w == o[4] % block_size
                         offset_d == (offset_h * block_size + offset_w) * output_depth
                         in_d == o[2] + offset_d
                     IN t.data[Offset(t.shape, o[1], in_d, in_h, in_w) + 1]]]

(* GPU kernel on images: one work item per output pixel, one channel    *)
(* per lane.                                                            *)
DepthToSpaceImage(img, block_size) ==
    LET input_depth == img.shape[4]
        output_depth == input_depth \div (block_size * block_size)
        oshape == << img.shape[1], img.shape[2] * block_size,
                     img.shape[3] * block_size, output_depth >>
    IN [shape |-> oshape,
        data  |-> [j \in 1..ImageSize(oshape) |->
                     LET o == PixelIndex(oshape, j - 1)
                         in_h == o[2] \div block_size
                         offset_h == o[2] % block_size
                         in_w == o[3] \div block_size
                         offset_w == o[3] % block_size
                         offset_d == (offset_h * block_size + offset_w) * output_depth
                         in_d == o[4] + offset_d
                     IN IF o[4] < output_depth
                        THEN img.data[PixelOffset(img.shape, o[1], in_h, in_w, in_d) + 1]
                        ELSE 0]]

(* OpsTestNet::RunOp of the DepthToSpace operator on device D. *)
RunOp(D, t, block_size) ==
    IF D = "CPU" THEN DepthToSpaceNCHW(t, block_size)
    ELSE DepthToSpaceImage(t, block_size)

(* Channel extent of the operator's input: [N, D, H, W] on the CPU, the  *)
(* image of a [N, H, W, D] buffer on the GPU.                            *)
InputDepth(D, t) == IF D = "CPU" THEN t.shape[2] ELSE t.shape[4]

(* Status of the operator's run: the edge policies b >= 1 and channel    *)
(* extent divisible by b*b are validated before the kernel is started.   *)
RunOpStatus(D, t, block_size) ==
    IF block_size >= 1 /\ InputDepth(D, t) % (block_size * block_size) = 0
    THEN "MACE_SUCCESS"
    ELSE "MACE_INVALID_ARGS"

(* ------------------------------------------------------------------ *)
(* Values of the run harness before RunModel is entered                *)
(* ------------------------------------------------------------------ *)
NoEngine == [id |-> 0, ok |-> FALSE, ran |-> 0]

NoOutputs == [run |-> 0, status |-> "none", engine |-> 0, phase |-> "none"]

(* No weight bytes were handed to a Create yet. *)
NoBytes == << -1 >>

NoCalls ==
    [creates |-> 0, runs |-> 0, failures |-> 0,
     first_weights |-> NoBytes, last_weights |-> NoBytes,
     last |-> [op |-> "none", status |-> "none", phase |-> "none"],
     warmup_runs |-> 0, warmup_ok |-> 0, warmup_ok_micros |-> 0,
     measured_runs |-> 0, measured_ok |-> 0, measured_ok_micros |-> 0]

NoAverage == [num |-> -1, den |-> 1]

NoMetadata == [handed |-> 0]

(* The element counts before RunModel has computed them. *)
NoSizes == [input_tensor_size |-> 0, output_buffer |-> 0, output_size |-> 0]

ParseIdle ==
    /\ str = <<>>
    /\ tmp = <<>>
    /\ shape_vec = <<>>
    /\ ppc = "idle"
    /\ sizes = NoSizes

MainIdle ==
    /\ argv = "none"
    /\ mpc = "idle"
    /\ restart_i = 0
    /\ main_ret = FALSE
    /\ main_result = "none"
    /\ exit_status = "none"
    /\ past_end = 0

SchedIdle ==
    /\ graph = "none"
    /\ topo = <<>>
    /\ order = <<>>
    /\ spc = "idle"
    /\ dispatched = <<>>
    /\ sched_status = "none"

HarnessIdle ==
    /\ flags = [round |-> 0, input_dir |-> FALSE, output_dir |-> FALSE,
                benchmark |-> FALSE, input_shape |-> <<>>]
    /\ pc = "idle"
    /\ engine = NoEngine
    /\ create_engine_status = "none"
    /\ warmup_status = "none"
    /\ run_status = "none"
    /\ i = 0
    /\ total_run_duration = 0
    /\ warmup_millis = -1
    /\ model_run_millis = NoAverage
    /\ outputs = NoOutputs
    /\ files = <<>>
    /\ dir = [left |-> 0, input_file_count |-> 0, matched |-> FALSE]
    /\ ret = "none"
    /\ calls = NoCalls
    /\ model_weights_data = <<>>
    /\ inputs = <<>>
    /\ inputs_size = <<>>
    /\ driver = "bounded"
    /\ metadata = NoMetadata
    /\ op_stat = <<>>


(* ------------------------------------------------------------------ *)
(* The tests of depth_to_space_test.cc                                 *)
(* ------------------------------------------------------------------ *)
Iota(first, n) == [k \in 1..n |-> first + k - 1]

Filled(n, v) == [k \in 1..n |-> v]

(* Tolerances: |x - y| <= abs_err + rel_err * |x| with rel_err = 1/relInv *)
(* and abs_err = 1/absInv (absInv = 0: no absolute term).                 *)
Tolerance_1e5 == [relInv |-> 100000, absInv |-> 0]

Tolerance_Half == [relInv |-> 1000, absInv |-> 10000]

TestCase(fn, D, T, in_shape, in_data, block_size, exp_shape, exp_data) ==
    [fn |-> fn, D |-> D, T |-> T, input_shape |-> in_shape,
     input_data |-> in_data, block_size |-> block_size,
     expected_shape |-> exp_shape, expected_data |-> exp_data]

Input1x2x16_B2_Expected ==
    << 0, 1, 2,  3,  4,  5,  6,  7,  16, 17, 18, 19, 20, 21, 22, 23,
       8, 9, 10, 11, 12, 13, 14, 15, 24, 25, 26, 27, 28, 29, 30, 31 >>

(* TEST_F(DepthToSpaceOpTest, Input1x2x16_B2_CPU / _OPENCL) *)
Input1x2x16_B2(D) ==
    TestCase("RunDepthToSpace", D, "float", <<1, 1, 2, 16>>, Iota(0, 32), 2,
             <<1, 2, 4, 4>>, Input1x2x16_B2_Expected)

(* TEST_F(DepthToSpaceOpTest, Input1x1x16_B2_CPU / _OPENCL) *)
Input1x1x16_B2(D) ==
    TestCase("RunDepthToSpace", D, "float", <<1, 1, 1, 16>>, Iota(1, 16), 2,
             <<1, 2, 2, 4>>, Iota(1, 16))

(* TEST_F(DepthToSpaceOpTest, InputLarger_B2_OPENCL): {1, 192, 192, 128}   *)
(* filled with 1.0, here with the extents h, w and 4*c.                    *)
InputLarger_B2_OPENCL(h, w, c) ==
    TestCase("RunDepthToSpace", "GPU", "float", <<1, h, w, 4 * c>>,
             Filled(h * w * 4 * c, 1), 2, <<1, 2 * h, 2 * w, c>>,
             Filled(h * w * 4 * c, 1))

(* AddRandomInput: pairwise distinct float values that need more than    *)
(* HalfSigBits significant bits, in an order fixed by the seed.          *)
RandomData(seed, n) == [k \in 1..n |-> 2049 + ((k * 37 + seed * 101) % 4001)]

(* RandomTest<D, T>(block_size, shape): OPENCLRandomFloat / OPENCLRandomHalf *)
(* call it with block_size 2 and shape {1, 192, 192, 128}.                   *)
RandomTestCase(T, block_size, shape, seed) ==
    TestCase("RandomTest", "GPU", T, shape, RandomData(seed, Product(shape)),
             block_size, <<>>, <<>>)

Shapes(b) ==
    { <<n, h, w, c * b * b>> : n \in 1..MaxN, h \in 1..MaxH, w \in 1..MaxW,
                               c \in 1..MaxC }

(* Channel extents that block_size b does not accept, and the calls of   *)
(* RandomTest (CPU operator first) and RunDepthToSpace<GPU> with them.    *)
NonDivisibleShapes(b) ==
    { <<1, 1, w, d>> : w \in 1..MaxW,
                       d \in { e \in 1..(MaxC * b * b) : e % (b * b) # 0 } }

NonDivisibleCases ==
    UNION { { RandomTestCase(T, b, shape, 1) :
                 shape \in NonDivisibleShapes(b), T \in {"float", "half"} }
            \cup { TestCase("RunDepthToSpace", "GPU", "float", shape,
                            RandomData(1, Product(shape)), b, <<>>, <<>>) :
                      shape \in NonDivisibleShapes(b) }
            : b \in 1..MaxB }

TestCases ==
    NonDivisibleCases
    \cup { Input1x2x16_B2(D) : D \in {"CPU", "GPU"} }
    \cup { Input1x1x16_B2(D) : D \in {"CPU", "GPU"} }
    \cup { InputLarger_B2_OPENCL(h, w, c) : h \in 1..MaxH, w \in 1..MaxW, c \in 1..MaxC }
    \cup UNION { { RandomTestCase(T, b, shape, seed) :
                      shape \in Shapes(b), seed \in 1..MaxSeed, T \in {"float", "half"} }
                 : b \in 1..MaxB }

TensorNames ==
    {"Input", "InputNCHW", "OutputNCHW", "Output", "InputImage", "OutputImage",
     "OPENCLOutput"}

(* ExpectTensorNear<float>(x, y, rel_err, abs_err) *)
ExpectTensorNear(x, y, tol) ==
    /\ x.shape = y.shape
    /\ \A k \in 1..Len(x.data) :
          IF tol.absInv = 0
          THEN Abs(x.data[k] - y.data[k]) * tol.relInv <= Abs(x.data[k])
          ELSE Abs(x.data[k] - y.data[k]) * tol.relInv * tol.absInv
                  <= tol.relInv + Abs(x.data[k]) * tol.absInv

InitOps ==
    /\ tcase \in TestCases
    /\ net = [name \in TensorNames |-> NoTensor]
    /\ tpc = "AddInput"
    /\ verdict = "none"
    /\ op_status = "none"
    /\ HarnessIdle
    /\ SchedIdle
    /\ ParseIdle
    /\ MainIdle

(* net.AddInputFromArray / net.AddRandomInput ("Input") *)
AddInput ==
    /\ tpc = "AddInput"
    /\ net' = [net EXCEPT !["Input"] =
                  [shape |-> tcase.input_shape, data |-> tcase.input_data]]
    /\ tpc' = IF tcase.fn = "RunDepthToSpace" /\ tcase.D # "CPU"
              THEN "BufferToImage" ELSE "TransformInput"
    /\ UNCHANGED <<tcase, verdict, op_status, runVars, schedVars, parseVars,
                   mainVars>>

(* Faulty variant of TransformInput: source and destination format     *)
(* exchanged.                                                            *)
TransformInput_Swapped ==
    /\ tpc = "TransformInput"
    /\ net' = [net EXCEPT !["InputNCHW"] =
                  TransformDataFormat(net["Input"], "NCHW", "NHWC")]
    /\ tpc' = "RunOpCPU"
    /\ UNCHANGED <<tcase, verdict, op_status, runVars, schedVars, parseVars,
                   mainVars>>

(* net.TransformDataFormat("Input", NHWC, "InputNCHW", NCHW) *)
TransformInput ==
    /\ tpc = "TransformInput"
    /\ net' = [net EXCEPT !["InputNCHW"] =
                  TransformDataFormat(net["Input"], "NHWC", "NCHW")]
    /\ tpc' = "RunOpCPU"
    /\ UNCHANGED <<tcase, verdict, op_status, runVars, schedVars, parseVars,
                   mainVars>>

(* Faulty variant of RunOpCPU: the block_size argument is not added to  *)
(* the operator definition, the operator runs with block size 1.         *)
RunOpCPU_NoBlockSize ==
    /\ tpc = "RunOpCPU"
    /\ net' = [net EXCEPT !["OutputNCHW"] = RunOp("CPU", net["InputNCHW"], 1)]
    /\ tpc' = "TransformOutput"
    /\ op_status' = RunOpStatus("CPU", net["InputNCHW"], 1)
    /\ UNCHANGED <<tcase, verdict, runVars, schedVars, parseVars,
                   mainVars>>

(* Faulty variant of RunOpCPU: the kernel runs with block_size off by   *)
(* one, on whatever channel extent it is given.                          *)
RunOpCPU_WrongBlockSize ==
    /\ tpc = "RunOpCPU"
    /\ net' = [net EXCEPT !["OutputNCHW"] =
                  RunOp("CPU", net["InputNCHW"], tcase.block_size + 1)]
    /\ tpc' = "TransformOutput"
    /\ op_status' = "MACE_SUCCESS"
    /\ UNCHANGED <<tcase, verdict, runVars, schedVars, parseVars,
                   mainVars>>

(* Faulty variant of RunOpCPU: the channel extent is not validated, the  *)
(* kernel runs with the quotient input_depth / (b*b) rounded down.       *)
RunOpCPU_Unchecked ==
    /\ tpc = "RunOpCPU"
    /\ net' = [net EXCEPT !["OutputNCHW"] =
                  RunOp("CPU", net["InputNCHW"], tcase.block_size)]
    /\ tpc' = "TransformOutput"
    /\ op_status' = "MACE_SUCCESS"
    /\ UNCHANGED <<tcase, verdict, runVars, schedVars, parseVars,
                   mainVars>>

(* DepthToSpace on InputNCHW -> OutputNCHW; net.RunOp(CPU).  The test    *)
(* body after a failed run reads an output tensor that was never made;   *)
(* the test is taken to end there ("failed").                            *)
RunOpCPU ==
    /\ tpc = "RunOpCPU"
    /\ op_status' = RunOpStatus("CPU", net["InputNCHW"], tcase.block_size)
    /\ IF op_status' = "MACE_SUCCESS"
       THEN /\ net' = [net EXCEPT !["OutputNCHW"] =
                          RunOp("CPU", net["InputNCHW"], tcase.block_size)]
            /\ tpc' = "TransformOutput"
       ELSE /\ net' = net
            /\ tpc' = "failed"
    /\ UNCHANGED <<tcase, verdict, runVars, schedVars, parseVars,
                   mainVars>>

(* Faulty variant of TransformOutput: source and destination format    *)
(* exchanged.                                                            *)
TransformOutput_Swapped ==
    /\ tpc = "TransformOutput"
    /\ net' = [net EXCEPT !["Output"] =
                  TransformDataFormat(net["OutputNCHW"], "NHWC", "NCHW")]
    /\ tpc' = IF tcase.fn = "RandomTest" THEN "BufferToImage" ELSE "Expect"
    /\ UNCHANGED <<tcase, verdict, op_status, runVars, schedVars, parseVars,
                   mainVars>>

(* Faulty variant of TransformOutput: the channel-first result is taken *)
(* as the output without conversion.                                     *)
TransformOutput_Copy ==
    /\ tpc = "TransformOutput"
    /\ net' = [net EXCEPT !["Output"] = net["OutputNCHW"]]
    /\ tpc' = IF tcase.fn = "RandomTest" THEN "BufferToImage" ELSE "Expect"
    /\ UNCHANGED <<tcase, verdict, op_status, runVars, schedVars, parseVars,
                   mainVars>>

(* net.TransformDataFormat("OutputNCHW", NCHW, "Output", NHWC) *)
TransformOutput ==
    /\ tpc = "TransformOutput"
    /\ net' = [net EXCEPT !["Output"] =
                  TransformDataFormat(net["OutputNCHW"], "NCHW", "NHWC")]
    /\ tpc' = IF tcase.fn = "RandomTest" THEN "BufferToImage" ELSE "Expect"
    /\ UNCHANGED <<tcase, verdict, op_status, runVars, schedVars, parseVars,
                   mainVars>>

(* Faulty variant of BufferToImageInput: the image is always half. *)
BufferToImageInput_Half ==
    /\ tpc = "BufferToImage"
    /\ net' = [net EXCEPT !["InputImage"] = BufferToImage(net["Input"], "half")]
    /\ tpc' = "RunOpGPU"
    /\ UNCHANGED <<tcase, verdict, op_status, runVars, schedVars, parseVars,
                   mainVars>>

(* BufferToImage<D, T>(&net, "Input", "InputImage", IN_OUT_CHANNEL) *)
BufferToImageInput ==
    /\ tpc = "BufferToImage"
    /\ net' = [net EXCEPT !["InputImage"] = BufferToImage(net["Input"], tcase.T)]
    /\ tpc' = "RunOpGPU"
    /\ UNCHANGED <<tcase, verdict, op_status, runVars, schedVars, parseVars,
                   mainVars>>

(* Faulty variant of RunOpGPU: the block_size argument is not added to  *)
(* the operator definition, the operator runs with block size 1.         *)
RunOpGPU_NoBlockSize ==
    /\ tpc = "RunOpGPU"
    /\ net' = [net EXCEPT !["OutputImage"] = RunOp(tcase.D, net["InputImage"], 1)]
    /\ tpc' = "ImageToBuffer"
    /\ op_status' = RunOpStatus(tcase.D, net["InputImage"], 1)
    /\ UNCHANGED <<tcase, verdict, runVars, schedVars, parseVars,
                   mainVars>>

(* Faulty variant of RunOpGPU: the channel extent is not validated, the  *)
(* kernel runs with the quotient input_depth / (b*b) rounded down.       *)
RunOpGPU_Unchecked ==
    /\ tpc = "RunOpGPU"
    /\ net' = [net EXCEPT !["OutputImage"] =
                  RunOp(tcase.D, net["InputImage"], tcase.block_size)]
    /\ tpc' = "ImageToBuffer"
    /\ op_status' = "MACE_SUCCESS"
    /\ UNCHANGED <<tcase, verdict, runVars, schedVars, parseVars,
                   mainVars>>

(* DepthToSpace on InputImage -> OutputImage; net.RunOp(D) *)
RunOpGPU ==
    /\ tpc = "RunOpGPU"
    /\ op_status' = RunOpStatus(tcase.D, net["InputImage"], tcase.block_size)
    /\ IF op_status' = "MACE_SUCCESS"
       THEN /\ net' = [net EXCEPT !["OutputImage"] =
                          RunOp(tcase.D, net["InputImage"], tcase.block_size)]
            /\ tpc' = "ImageToBuffer"
       ELSE /\ net' = net
            /\ tpc' = "failed"
    /\ UNCHANGED <<tcase, verdict, runVars, schedVars, parseVars,
                   mainVars>>

(* ImageToBuffer<D, float>(&net, "OutputImage", "Output" / "OPENCLOutput") *)
ImageToBufferOutput ==
    /\ tpc = "ImageToBuffer"
    /\ net' = [net EXCEPT
                  ![IF tcase.fn = "RandomTest" THEN "OPENCLOutput" ELSE "Output"] =
                      ImageToBuffer(net["OutputImage"])]
    /\ tpc' = "Expect"
    /\ UNCHANGED <<tcase, verdict, op_status, runVars, schedVars, parseVars,
                   mainVars>>

(* The closing ExpectTensorNear of RunDepthToSpace, and of RandomTest. *)
Expect ==
    /\ tpc = "Expect"
    /\ verdict' =
          IF tcase.fn = "RunDepthToSpace"
          THEN IF ExpectTensorNear(
                      [shape |-> tcase.expected_shape, data |-> tcase.expected_data],
                      net["Output"], Tolerance_1e5)
               THEN "pass" ELSE "fail"
          ELSE IF ExpectTensorNear(
                      net["Output"], net["OPENCLOutput"],
                      IF tcase.T = "float" THEN Tolerance_1e5 ELSE Tolerance_Half)
               THEN "pass" ELSE "fail"
    /\ tpc' = "done"
    /\ UNCHANGED <<tcase, net, op_status, runVars, schedVars, parseVars,
                   mainVars>>

NextOps ==
    \/ AddInput
    \/ TransformInput
    \/ RunOpCPU
    \/ TransformOutput
    \/ BufferToImageInput
    \/ RunOpGPU
    \/ ImageToBufferOutput
    \/ Expect

SpecOps == InitOps /\ [][NextOps]_vars

AllTestsPass == tpc = "done" => verdict = "pass"

(* ================================================================== *)
(* The run harness: RunModel of mace_run.cc                            *)
(* ================================================================== *)
(* MaceStatus codes the engine returns; MACE_RUNTIME_ERROR is the       *)
(* backend (driver or device) failure.                                  *)
StatusCodes == {"MACE_SUCCESS", "MACE_RUNTIME_ERROR", "MACE_INVALID_ARGS"}

(* Statuses a call can return now: with a bounded driver at most         *)
(* MaxFailures calls fail, with a flaky one every call may.              *)
Outcomes ==
    IF driver = "flaky" \/ calls.failures < MaxFailures
    THEN StatusCodes ELSE {"MACE_SUCCESS"}

(* The call counters of `calls`: exact with a bounded driver; with a     *)
(* flaky one, where they have no bound, they stop at MaxFailures + 1.    *)
Tally(n, d) ==
    IF driver = "flaky" /\ n + d > MaxFailures + 1 THEN MaxFailures + 1 ELSE n + d

Durations == 1..MaxDuration

Failed(status) == IF status # "MACE_SUCCESS" THEN 1 ELSE 0

(* Faulty variant of CreateMaceEngine: a successful Create consumes the  *)
(* weight region (the engine takes the bytes and leaves the region       *)
(* empty).                                                               *)
CreateMaceEngine_ConsumesWeights(status, replaced, phase) ==
    /\ create_engine_status' = status
    /\ engine' = IF status = "MACE_SUCCESS"
                 THEN [id |-> Tally(calls.creates, 1), ok |-> TRUE, ran |-> 0]
                 ELSE IF replaced
                      THEN [id |-> Tally(calls.creates, 1), ok |-> FALSE, ran |-> 0]
                      ELSE engine
    /\ calls' = [calls EXCEPT
                    !.creates = Tally(@, 1),
                    !.failures = Tally(@, Failed(status)),
                    !.first_weights =
                        IF calls.creates = 0 THEN model_weights_data ELSE @,
                    !.last_weights = model_weights_data,
                    !.last = [op |-> "Create", status |-> status, phase |-> phase]]
    /\ model_weights_data' =
          IF status = "MACE_SUCCESS" THEN <<>> ELSE model_weights_data

(* CreateMaceEngineFromProto / CreateMaceEngineFromCode(..., &engine):   *)
(* on success `engine` is a new engine; on failure it is either left as   *)
(* it was or replaced by an engine whose Init failed.                     *)
(* The weight bytes are passed as const unsigned char *: read only.       *)
CreateMaceEngine(status, replaced, phase) ==
    /\ create_engine_status' = status
    /\ engine' = IF status = "MACE_SUCCESS"
                 THEN [id |-> Tally(calls.creates, 1), ok |-> TRUE, ran |-> 0]
                 ELSE IF replaced
                      THEN [id |-> Tally(calls.creates, 1), ok |-> FALSE, ran |-> 0]
                      ELSE engine
    /\ calls' = [calls EXCEPT
                    !.creates = Tally(@, 1),
                    !.failures = Tally(@, Failed(status)),
                    !.first_weights =
                        IF calls.creates = 0 THEN model_weights_data ELSE @,
                    !.last_weights = model_weights_data,
                    !.last = [op |-> "Create", status |-> status, phase |-> phase]]
    /\ model_weights_data' = model_weights_data

(* engine->Run(inputs, &outputs, ...): fills the output buffers and      *)
(* returns a status; `micros` is the time the call took.                  *)
EngineRun(status, micros, phase) ==
    /\ outputs' = [run |-> Tally(calls.runs, 1), status |-> status,
                   engine |-> engine.id, phase |-> phase]
    /\ engine' = IF status = "MACE_SUCCESS"
                 THEN [engine EXCEPT !.ran = @ + 1] ELSE engine
    /\ model_weights_data' = model_weights_data
    /\ calls' = [calls EXCEPT
                    !.runs = Tally(@, 1),
                    !.failures = Tally(@, Failed(status)),
                    !.last = [op |-> "Run", status |-> status, phase |-> phase],
                    !.warmup_runs = IF phase = "warmup" THEN Tally(@, 1) ELSE @,
                    !.measured_runs = IF phase = "measured" THEN Tally(@, 1) ELSE @,
                    !.warmup_ok =
                        IF phase = "warmup" /\ status = "MACE_SUCCESS"
                        THEN @ + 1 ELSE @,
                    !.warmup_ok_micros =
                        IF phase = "warmup" /\ status = "MACE_SUCCESS"
                        THEN @ + micros ELSE @,
                    !.measured_ok =
                        IF phase = "measured" /\ status = "MACE_SUCCESS"
                        THEN @ + 1 ELSE @,
                    !.measured_ok_micros =
                        IF phase = "measured" /\ status = "MACE_SUCCESS"
                        THEN @ + micros ELSE @]

(* Contents of the weight file: none (no FLAGS_model_data_file) or some  *)
(* bytes.                                                                *)
WeightBlobs == { <<>>, <<3, 1, 4>> }

(* FLAGS_input_shape as Main parsed it: one shape per input.             *)
InputShapeLists == { << <<1, 2, 2, 3>> >>, << <<1, 2, 2, 3>>, <<1, 4>> >> }

OpsIdle ==
    /\ tcase = "none"
    /\ net = [name \in TensorNames |-> NoTensor]
    /\ tpc = "idle"
    /\ verdict = "none"
    /\ op_status = "none"

(* RunModel up to its create loop: the flags Main parsed, the weight     *)
(* region mapped from FLAGS_model_data_file (empty without the flag), no  *)
(* engine yet.                                                            *)
RunModelEntry ==
    /\ OpsIdle
    /\ SchedIdle
    /\ ParseIdle
    /\ MainIdle
    /\ metadata = NoMetadata
    /\ op_stat = <<>>
    /\ flags \in [round : -1..MaxRound, input_dir : BOOLEAN,
                  output_dir : BOOLEAN, benchmark : BOOLEAN,
                  input_shape : InputShapeLists]
    /\ model_weights_data \in WeightBlobs
    /\ inputs = <<>>
    /\ inputs_size = <<>>
    /\ pc = "Create"
    /\ engine = NoEngine
    /\ create_engine_status = "none"
    /\ warmup_status = "none"
    /\ run_status = "none"
    /\ i = 0
    /\ total_run_duration = 0
    /\ warmup_millis = -1
    /\ model_run_millis = NoAverage
    /\ outputs = NoOutputs
    /\ files = <<>>
    /\ \E n \in 0..MaxEntries :
          dir = [left |-> IF flags.input_dir THEN n ELSE 0,
                 input_file_count |-> 0, matched |-> FALSE]
    /\ ret = "none"
    /\ calls = NoCalls

Init ==
    /\ RunModelEntry
    /\ driver = "bounded"

(* Faulty variant of CreateEngine: the loop is left after one attempt,  *)
(* whatever its status.                                                  *)
CreateEngine_NoRetry ==
    /\ pc = "Create"
    /\ \E status \in Outcomes, replaced \in BOOLEAN :
          /\ CreateMaceEngine(status, replaced, "init")
          /\ pc' = "Setup"
    /\ UNCHANGED <<flags, warmup_status, run_status, i, total_run_duration,
                   warmup_millis, model_run_millis, outputs, files, dir, ret,
                   opsVars,
                   inputs, inputs_size, driver, schedVars,
                   parseVars, mainVars, metadata, op_stat>>

(* while (true) { create_engine_status = CreateMaceEngineFrom...; ... } *)
CreateEngine ==
    /\ pc = "Create"
    /\ \E status \in Outcomes, replaced \in BOOLEAN :
          /\ CreateMaceEngine(status, replaced, "init")
          /\ pc' = IF status # "MACE_SUCCESS" THEN "Create" ELSE "Setup"
    /\ UNCHANGED <<flags, warmup_status, run_status, i, total_run_duration,
                   warmup_millis, model_run_millis, outputs, files, dir, ret,
                   opsVars,
                   inputs, inputs_size, driver, schedVars,
                   parseVars, mainVars, metadata, op_stat>>

(* Integers wider than the checker's own are kept as their bytes, least *)
(* significant first, in two's complement.                               *)
ByteBase == 256

IntBytes == 4       \* sizeof(int)

WideBytes == 16     \* enough for any product of two int64_t

RECURSIVE ToBytes(_, _)
ToBytes(x, n) ==
    IF n = 0 THEN <<>> ELSE <<x % ByteBase>> \o ToBytes(x \div ByteBase, n - 1)

(* The int whose IntBytes bytes are d. *)
FromIntBytes(d) ==
    (((IF d[4] >= 128 THEN d[4] - ByteBase ELSE d[4]) * ByteBase + d[3])
        * ByteBase + d[2]) * ByteBase + d[1]

RECURSIVE ColumnSum(_, _, _, _)
ColumnSum(a, b, k, p) ==
    IF p = 0 THEN 0 ELSE a[p] * b[k + 1 - p] + ColumnSum(a, b, k, p - 1)

(* The bytes from the k-th on of the product of a and b, carry coming   *)
(* from the bytes below.  (A one element set names a value that is then *)
(* used several times.)                                                 *)
RECURSIVE Propagate(_, _, _, _, _)
Propagate(a, b, n, k, carry) ==
    IF k > n THEN <<>>
    ELSE CHOOSE r \in { <<t % ByteBase>> \o Propagate(a, b, n, k + 1, t \div ByteBase) :
                           t \in {ColumnSum(a, b, k, k) + carry} } : TRUE

(* The low n bytes of the product of two n byte numbers. *)
MulBytes(a, b, n) ==
    CHOOSE r \in { Propagate(u, v, n, 1, 0) : u \in {a}, v \in {b} } : TRUE

(* std::accumulate(shape.begin(), shape.end(), init,                     *)
(*                 std::multiplies<int64_t>()): the accumulator has the   *)
(* type of init, int; each step multiplies as int64_t and stores the      *)
(* product back into the int.                                             *)
RECURSIVE Accumulate(_, _)
Accumulate(shape, init) ==
    IF shape = <<>> THEN init
    ELSE CHOOSE r \in { Accumulate(Tail(shape), acc) :
                           acc \in {FromIntBytes(MulBytes(ToBytes(init, IntBytes),
                                                          ToBytes(Head(shape), IntBytes),
                                                          IntBytes))} } : TRUE

(* ReadInputDataFromFile(file_path, tensor_size, type, input_data): the  *)
(* number of elements it copies from the file into the tensor's buffer.  *)
ReadInputDataFromFile(tensor_size) == IF tensor_size > 0 THEN tensor_size ELSE 0

(* inputs_size[input_names[k]] for every input k: operator[] of the map  *)
(* inserts a zero for a key it does not hold.                            *)
MapLookup(map) ==
    [k \in 1..Len(flags.input_shape) |-> IF k \in DOMAIN map THEN map[k] ELSE 0]

(* Allocation of the input and output tensors, then the mode switch     *)
(* if (!FLAGS_input_dir.empty()).                                        *)
SetupTensors ==
    /\ pc = "Setup"
    /\ inputs' = [k \in 1..Len(flags.input_shape) |->
                    [shape |-> flags.input_shape[k],
                     elements |-> ReadInputDataFromFile(
                                      Accumulate(flags.input_shape[k], 1)),
                     from |-> "input_file"]]
    /\ inputs_size' = inputs_size
    /\ pc' = IF flags.input_dir THEN "ReadDir" ELSE "Warmup"
    /\ UNCHANGED <<flags, engine, create_engine_status, warmup_status, run_status,
                   i, total_run_duration, warmup_millis, model_run_millis,
                   outputs, files, dir, ret, calls, opsVars,
                   model_weights_data, driver, schedVars,
                   parseVars, mainVars, metadata, op_stat>>

(* while ((entry = readdir(dir_parent))): one entry, matching the       *)
(* prefix or not; the inputs are refilled for a matching one.            *)
ReadDirEntry ==
    /\ pc = "ReadDir"
    /\ dir.left > 0
    /\ \E matches \in BOOLEAN :
          /\ dir' = [left |-> dir.left - 1,
                     input_file_count |->
                        dir.input_file_count + (IF matches THEN 1 ELSE 0),
                     matched |-> matches]
          /\ pc' = IF matches THEN "DirRun" ELSE "ReadDir"
          /\ inputs_size' = IF matches THEN MapLookup(inputs_size) ELSE inputs_size
          /\ inputs' =
                IF matches
                THEN [k \in DOMAIN inputs |->
                        [inputs[k] EXCEPT
                            !.elements = ReadInputDataFromFile(inputs_size'[k]),
                            !.from = "input_dir"]]
                ELSE inputs
    /\ UNCHANGED <<flags, engine, create_engine_status, warmup_status, run_status,
                   i, total_run_duration, warmup_millis, model_run_millis,
                   outputs, files, ret, calls, opsVars,
                   model_weights_data, driver, schedVars,
                   parseVars, mainVars, metadata, op_stat>>

(* engine->Run(inputs, &outputs); the status is dropped. *)
DirRun ==
    /\ pc = "DirRun"
    /\ \E status \in Outcomes, micros \in Durations :
          EngineRun(status, micros, "dir")
    /\ pc' = IF flags.output_dir THEN "DirWrite" ELSE "ReadDir"
    /\ UNCHANGED <<flags, create_engine_status, warmup_status, run_status, i,
                   total_run_duration, warmup_millis, model_run_millis, files,
                   dir, ret, opsVars,
                   inputs, inputs_size, driver, schedVars,
                   parseVars, mainVars, metadata, op_stat>>

(* if (!FLAGS_output_dir.empty()) WriteOutputDataToFile(...) per output *)
DirWrite ==
    /\ pc = "DirWrite"
    /\ files' = Append(files, outputs)
    /\ pc' = "ReadDir"
    /\ UNCHANGED <<flags, engine, create_engine_status, warmup_status, run_status,
                   i, total_run_duration, warmup_millis, model_run_millis,
                   outputs, dir, ret, calls, opsVars,
                   model_weights_data, inputs, inputs_size, driver, schedVars,
                   parseVars, mainVars, metadata, op_stat>>

(* closedir; MACE_CHECK(input_file_count != 0, ...); return true *)
CloseDir ==
    /\ pc = "ReadDir"
    /\ dir.left = 0
    /\ ret' = IF dir.input_file_count # 0 THEN "true" ELSE "abort"
    /\ pc' = "Done"
    /\ UNCHANGED <<flags, engine, create_engine_status, warmup_status, run_status,
                   i, total_run_duration, warmup_millis, model_run_millis,
                   outputs, files, dir, calls, opsVars,
                   model_weights_data, inputs, inputs_size, driver, schedVars,
                   parseVars, mainVars, metadata, op_stat>>

(* Warm up run: MaceStatus warmup_status = engine->Run(inputs, &outputs) *)
WarmupRun ==
    /\ pc = "Warmup"
    /\ \E status \in Outcomes, micros \in Durations :
          /\ EngineRun(status, micros, "warmup")
          /\ warmup_status' = status
          /\ IF status # "MACE_SUCCESS"
             THEN /\ pc' = "WarmupRecreate"
                  /\ UNCHANGED warmup_millis
             ELSE /\ warmup_millis' = micros
                  /\ pc' = "StartRounds"
    /\ UNCHANGED <<flags, create_engine_status, run_status, i, total_run_duration,
                   model_run_millis, files, dir, ret, opsVars,
                   inputs, inputs_size, driver, schedVars,
                   parseVars, mainVars, metadata, op_stat>>

(* Faulty variant of WarmupRecreate: the loop gives up after a failed   *)
(* Create and RunModel returns false.                                    *)
WarmupRecreate_GivesUp ==
    /\ pc = "WarmupRecreate"
    /\ \E status \in Outcomes, replaced \in BOOLEAN :
          /\ CreateMaceEngine(status, replaced, "warmup")
          /\ IF status # "MACE_SUCCESS"
             THEN pc' = "Done" /\ ret' = "false"
             ELSE pc' = "Warmup" /\ ret' = ret
    /\ UNCHANGED <<flags, warmup_status, run_status, i, total_run_duration,
                   warmup_millis, model_run_millis, outputs, files, dir,
                   opsVars,
                   inputs, inputs_size, driver, schedVars,
                   parseVars, mainVars, metadata, op_stat>>

(* do { create_engine_status = CreateMaceEngineFrom... } while (failed) *)
WarmupRecreate ==
    /\ pc = "WarmupRecreate"
    /\ \E status \in Outcomes, replaced \in BOOLEAN :
          /\ CreateMaceEngine(status, replaced, "warmup")
          /\ pc' = IF status # "MACE_SUCCESS" THEN "WarmupRecreate" ELSE "Warmup"
    /\ UNCHANGED <<flags, warmup_status, run_status, i, total_run_duration,
                   warmup_millis, model_run_millis, outputs, files, dir, ret,
                   opsVars,
                   inputs, inputs_size, driver, schedVars,
                   parseVars, mainVars, metadata, op_stat>>

(* Faulty variant of StartRounds: the total starts from the warm up    *)
(* run's duration.                                                       *)
StartRounds_CountsWarmup ==
    /\ pc = "StartRounds"
    /\ model_run_millis' = NoAverage
    /\ IF flags.round > 0
       THEN /\ total_run_duration' = warmup_millis
            /\ i' = 0
            /\ pc' = "RoundCheck"
       ELSE /\ UNCHANGED <<total_run_duration, i>>
            /\ pc' = "WriteOutputs"
    /\ UNCHANGED <<flags, engine, create_engine_status, warmup_status, run_status,
                   warmup_millis, outputs, files, dir, ret, calls, opsVars,
                   model_weights_data, inputs, inputs_size, driver, schedVars,
                   parseVars, mainVars, metadata, op_stat>>

(* double model_run_millis = -1; if (FLAGS_round > 0) { total = 0; i = 0 *)
StartRounds ==
    /\ pc = "StartRounds"
    /\ model_run_millis' = NoAverage
    /\ IF flags.round > 0
       THEN /\ total_run_duration' = 0
            /\ i' = 0
            /\ pc' = "RoundCheck"
       ELSE /\ UNCHANGED <<total_run_duration, i>>
            /\ pc' = "WriteOutputs"
    /\ UNCHANGED <<flags, engine, create_engine_status, warmup_status, run_status,
                   warmup_millis, outputs, files, dir, ret, calls, opsVars,
                   model_weights_data, inputs, inputs_size, driver, schedVars,
                   parseVars, mainVars, metadata, op_stat>>

(* for (...; i < FLAGS_round; ...) and, after the loop,                  *)
(* model_run_millis = total_run_duration / 1000.0 / FLAGS_round          *)
RoundCheck ==
    /\ pc = "RoundCheck"
    /\ IF i < flags.round
       THEN /\ pc' = "Run"
            /\ metadata' = NoMetadata
            /\ UNCHANGED model_run_millis
       ELSE /\ model_run_millis' =
                  [num |-> total_run_duration, den |-> 1000 * flags.round]
            /\ pc' = "WriteOutputs"
            /\ UNCHANGED metadata
    /\ UNCHANGED op_stat
    /\ UNCHANGED <<flags, engine, create_engine_status, warmup_status, run_status,
                   i, total_run_duration, warmup_millis, outputs, files, dir,
                   ret, calls, opsVars,
                   model_weights_data, inputs, inputs_size, driver, schedVars,
                   parseVars, mainVars>>

(* Faulty variant of MeasuredRun: a failed Run is retried on the same   *)
(* engine, without a new Create.                                         *)
MeasuredRun_RetryWithoutCreate ==
    /\ pc = "Run"
    /\ \E status \in Outcomes, micros \in Durations :
          /\ EngineRun(status, micros, "measured")
          /\ run_status' = status
          /\ metadata' = IF flags.benchmark
                         THEN [metadata EXCEPT !.handed = Tally(@, 1)]
                         ELSE metadata
          /\ op_stat' = IF flags.benchmark /\ status = "MACE_SUCCESS"
                        THEN Append(op_stat, metadata')
                        ELSE op_stat
          /\ IF status # "MACE_SUCCESS"
             THEN /\ pc' = "Run"
                  /\ UNCHANGED <<total_run_duration, i>>
             ELSE /\ total_run_duration' = total_run_duration + micros
                  /\ i' = i + 1
                  /\ pc' = "RoundCheck"
    /\ UNCHANGED <<flags, create_engine_status, warmup_status, warmup_millis,
                   model_run_millis, files, dir, ret, opsVars,
                   inputs, inputs_size, driver, schedVars,
                   parseVars, mainVars>>

(* Faulty variant of MeasuredRun: a failed Run uses up its round (the   *)
(* round index advances before the re-Create).                           *)
MeasuredRun_FailureUsesRound ==
    /\ pc = "Run"
    /\ \E status \in Outcomes, micros \in Durations :
          /\ EngineRun(status, micros, "measured")
          /\ run_status' = status
          /\ metadata' = IF flags.benchmark
                         THEN [metadata EXCEPT !.handed = Tally(@, 1)]
                         ELSE metadata
          /\ op_stat' = IF flags.benchmark /\ status = "MACE_SUCCESS"
                        THEN Append(op_stat, metadata')
                        ELSE op_stat
          /\ IF status # "MACE_SUCCESS"
             THEN /\ pc' = "RunRecreate"
                  /\ i' = i + 1
                  /\ UNCHANGED total_run_duration
             ELSE /\ total_run_duration' = total_run_duration + micros
                  /\ i' = i + 1
                  /\ pc' = "RoundCheck"
    /\ UNCHANGED <<flags, create_engine_status, warmup_status, warmup_millis,
                   model_run_millis, files, dir, ret, opsVars,
                   inputs, inputs_size, driver, schedVars,
                   parseVars, mainVars>>

(* run_status = engine->Run(inputs, &outputs, metadata_ptr) *)
MeasuredRun ==
    /\ pc = "Run"
    /\ \E status \in Outcomes, micros \in Durations :
          /\ EngineRun(status, micros, "measured")
          /\ run_status' = status
          /\ metadata' = IF flags.benchmark
                         THEN [metadata EXCEPT !.handed = Tally(@, 1)]
                         ELSE metadata
          /\ op_stat' = IF flags.benchmark /\ status = "MACE_SUCCESS"
                        THEN Append(op_stat, metadata')
                        ELSE op_stat
          /\ IF status # "MACE_SUCCESS"
             THEN /\ pc' = "RunRecreate"
                  /\ UNCHANGED <<total_run_duration, i>>
             ELSE /\ total_run_duration' = total_run_duration + micros
                  /\ i' = i + 1
                  /\ pc' = "RoundCheck"
    /\ UNCHANGED <<flags, create_engine_status, warmup_status, warmup_millis,
                   model_run_millis, files, dir, ret, opsVars,
                   inputs, inputs_size, driver, schedVars,
                   parseVars, mainVars>>

(* do { create_engine_status = CreateMaceEngineFrom... } while (failed) *)
RunRecreate ==
    /\ pc = "RunRecreate"
    /\ \E status \in Outcomes, replaced \in BOOLEAN :
          /\ CreateMaceEngine(status, replaced, "measured")
          /\ pc' = IF status # "MACE_SUCCESS" THEN "RunRecreate" ELSE "Run"
    /\ UNCHANGED <<flags, warmup_status, run_status, i, total_run_duration,
                   warmup_millis, model_run_millis, outputs, files, dir, ret,
                   opsVars,
                   inputs, inputs_size, driver, schedVars,
                   parseVars, mainVars, metadata, op_stat>>

(* WriteOutputDataToFile for every output *)
WriteOutputs ==
    /\ pc = "WriteOutputs"
    /\ files' = Append(files, outputs)
    /\ pc' = "Report"
    /\ UNCHANGED <<flags, engine, create_engine_status, warmup_status, run_status,
                   i, total_run_duration, warmup_millis, model_run_millis,
                   outputs, dir, ret, calls, opsVars,
                   model_weights_data, inputs, inputs_size, driver, schedVars,
                   parseVars, mainVars, metadata, op_stat>>

(* printf of init, warmup and run_avg; return true *)
Report ==
    /\ pc = "Report"
    /\ ret' = "true"
    /\ pc' = "Done"
    /\ UNCHANGED <<flags, engine, create_engine_status, warmup_status, run_status,
                   i, total_run_duration, warmup_millis, model_run_millis,
                   outputs, files, dir, calls, opsVars,
                   model_weights_data, inputs, inputs_size, driver, schedVars,
                   parseVars, mainVars, metadata, op_stat>>

Next ==
    \/ CreateEngine
    \/ SetupTensors
    \/ ReadDirEntry
    \/ DirRun
    \/ DirWrite
    \/ CloseDir
    \/ WarmupRun
    \/ WarmupRecreate
    \/ StartRounds
    \/ RoundCheck
    \/ MeasuredRun
    \/ RunRecreate
    \/ WriteOutputs
    \/ Report

Spec == Init /\ [][Next]_vars

(* RunModel on a flaky driver: no bound on the failing calls; the        *)
(* weights are the mapped file's.                                       *)
InitFlaky ==
    /\ RunModelEntry
    /\ driver = "flaky"
    /\ model_weights_data = <<3, 1, 4>>

(* A Create call, in any of the three loops, that returns success. *)
CreateSucceeds ==
    /\ CreateEngine \/ WarmupRecreate \/ RunRecreate
    /\ create_engine_status' = "MACE_SUCCESS"

(* A warm up or measured Run that returns success. *)
RunSucceeds ==
    /\ WarmupRun \/ MeasuredRun
    /\ outputs'.status = "MACE_SUCCESS"

(* The program keeps executing (one thread, no blocking call modelled),  *)
(* and a call that is retried for ever does not fail for ever.           *)
SpecFair ==
    /\ InitFlaky
    /\ [][Next]_vars
    /\ WF_vars(Next)
    /\ SF_vars(CreateSucceeds)
    /\ SF_vars(RunSucceeds)

(* ================================================================== *)
(* Properties of the DepthToSpace tests (specification SpecOps)        *)
(* ================================================================== *)
Present(name) == net[name] # NoTensor

(* Scalar type of the pipeline that produced the named output tensor. *)
PathType(name) ==
    IF name = "OPENCLOutput" THEN tcase.T ELSE "float"

(* in[n, y div b, x div b, c + (b*(y mod b) + (x mod b))*C] of a         *)
(* channel-last tensor, C the output channel extent.                     *)
ChannelLastSource(in, b, n, y, x, c) ==
    in.data[Offset(in.shape, n, y \div b, x \div b,
                   c + (b * (y % b) + (x % b)) * (in.shape[4] \div (b * b))) + 1]

ExpectedShape(in, b) ==
    << in.shape[1], in.shape[2] * b, in.shape[3] * b, in.shape[4] \div (b * b) >>

(* The channel-last formula as a whole tensor. *)
ChannelLastDepthToSpace(in, b) ==
    LET oshape == ExpectedShape(in, b)
    IN [shape |-> oshape,
        data  |-> [j \in 1..Product(oshape) |->
                     LET o == Unravel(oshape, j - 1)
                     IN ChannelLastSource(in, b, o[1], o[2], o[3], o[4])]]

(* C1: every output tensor of a test holds, at each index (n,y,x,c) of   *)
(* [N, H*b, W*b, C], the input element at                                *)
(* [n, y div b, x div b, c + (b*(y mod b) + (x mod b))*C] (narrowed to   *)
(* the image's scalar type on the GPU path); and input [1,1,2,16] with   *)
(* values 0..31 and b = 2 yields [0..7, 16..23, 8..15, 24..31].          *)
C1_ChannelLastFormula ==
    /\ \A name \in {"Output", "OPENCLOutput"} :
          Present(name) =>
             LET in == net["Input"]
                 out == net[name]
                 b == tcase.block_size
                 oshape == ExpectedShape(in, b)
             IN /\ Len(out.data) = Product(oshape)
                /\ \A n \in 0..(oshape[1] - 1), y \in 0..(oshape[2] - 1),
                      x \in 0..(oshape[3] - 1), c \in 0..(oshape[4] - 1) :
                      out.data[Offset(oshape, n, y, x, c) + 1] =
                         CopyDataBetweenDiffType(
                             PathType(name), ChannelLastSource(in, b, n, y, x, c))
    /\ ( /\ Present("Output")
         /\ tcase.input_shape = <<1, 1, 2, 16>>
         /\ tcase.input_data = Iota(0, 32)
         /\ tcase.block_size = 2 )
       => net["Output"].data = Iota(0, 8) \o Iota(16, 8) \o Iota(8, 8) \o Iota(24, 8)

C1_Witness ==
    /\ Present("Output")
    /\ tcase.block_size = 2
    /\ tcase.input_shape = <<2, 2, 2, 12>>
    /\ tcase.D = "GPU"

(* C2: the output shape is [N, H*b, W*b, D/(b*b)], the element count is  *)
(* the input's and the batch extent is unchanged.                        *)
C2_OutputShape ==
    \A name \in {"Output", "OPENCLOutput"} :
       Present(name) =>
          LET in == net["Input"]
              out == net[name]
              b == tcase.block_size
          IN /\ out.shape = << in.shape[1], in.shape[2] * b, in.shape[3] * b,
                               in.shape[4] \div (b * b) >>
             /\ Len(out.data) = Len(in.data)
             /\ Product(out.shape) = Product(in.shape)
             /\ out.shape[1] = in.shape[1]

C2_Witness ==
    /\ Present("OPENCLOutput")
    /\ tcase.block_size = 2
    /\ tcase.input_shape = <<2, 1, 2, 20>>

(* C6: with H = W = 1 the output, of shape [N, b, b, C], is the input's  *)
(* flat element sequence unchanged (values 1..16 with b = 2 stay 1..16). *)
C6_UnitSpatialKeepsMemoryOrder ==
    /\ \A name \in {"Output", "OPENCLOutput"} :
          ( /\ Present(name)
            /\ PathType(name) = "float"
            /\ net["Input"].shape[2] = 1
            /\ net["Input"].shape[3] = 1 )
          => /\ net[name].data = net["Input"].data
             /\ net[name].shape =
                   << net["Input"].shape[1], tcase.block_size, tcase.block_size,
                      net["Input"].shape[4] \div (tcase.block_size * tcase.block_size) >>
    /\ ( /\ Present("Output")
         /\ tcase.input_shape = <<1, 1, 1, 16>>
         /\ tcase.input_data = Iota(1, 16)
         /\ tcase.block_size = 2 )
       => net["Output"].data = Iota(1, 16)

C6_Witness ==
    /\ Present("Output")
    /\ tcase.input_shape = <<2, 1, 1, 20>>
    /\ tcase.block_size = 2
    /\ tcase.fn = "RandomTest"

Range(seq) == { seq[k] : k \in 1..Len(seq) }

Narrowed(T, seq) == [k \in 1..Len(seq) |-> CopyDataBetweenDiffType(T, seq[k])]

(* C7: the output is a rearrangement of the input: it has as many        *)
(* elements, the same values, each input element exactly once when the   *)
(* input's elements are pairwise distinct, and a constant input gives    *)
(* the same constant output.                                             *)
C7_PureRearrangement ==
    \A name \in {"Output", "OPENCLOutput"} :
       Present(name) =>
          LET in == Narrowed(PathType(name), net["Input"].data)
              out == net[name].data
          IN /\ Len(out) = Len(in)
             /\ Range(out) = Range(in)
             /\ Cardinality(Range(in)) = Len(in) => Cardinality(Range(out)) = Len(out)
             /\ \A v \in Range(in) : in = Filled(Len(in), v) => out = Filled(Len(in), v)

C7_Witness ==
    /\ Present("Output")
    /\ tcase.block_size = 2
    /\ tcase.input_shape = <<1, 2, 2, 12>>
    /\ Cardinality(Range(net["Input"].data)) = 48
    /\ net["Output"].data # net["Input"].data

(* C9: the CPU pipeline (NHWC -> NCHW, channel-first DepthToSpace,       *)
(* NCHW -> NHWC) yields the channel-last formula's tensor.               *)
C9_ChannelFirstPipeline ==
    /\ Present("OutputNCHW") =>
          net["OutputNCHW"] =
             TransformDataFormat(
                 ChannelLastDepthToSpace(net["Input"], tcase.block_size),
                 "NHWC", "NCHW")
    /\ (Present("Output") /\ Present("OutputNCHW")) =>
          net["Output"] = ChannelLastDepthToSpace(net["Input"], tcase.block_size)

C9_Witness ==
    /\ Present("Output")
    /\ Present("OutputNCHW")
    /\ tcase.block_size = 2
    /\ tcase.input_shape = <<2, 2, 2, 8>>

(* C10: NHWC -> NCHW -> NHWC gives back the tensor: same shape, same      *)
(* element at every index.                                               *)
C10_LayoutRoundTrip ==
    /\ Present("InputNCHW") =>
          /\ TransformDataFormat(net["InputNCHW"], "NCHW", "NHWC") = net["Input"]
          /\ net["InputNCHW"].shape =
                << net["Input"].shape[1], net["Input"].shape[4],
                   net["Input"].shape[2], net["Input"].shape[3] >>
    /\ Present("Output") =>
          TransformDataFormat(TransformDataFormat(net["Output"], "NHWC", "NCHW"),
                              "NCHW", "NHWC") = net["Output"]

C10_Witness ==
    /\ Present("InputNCHW")
    /\ net["Input"].shape = <<2, 2, 2, 3>>
    /\ net["InputNCHW"].data # net["Input"].data

(* C8 as claimed: the GPU path's output is the CPU path's, element for   *)
(* element, whatever the image's scalar type.                            *)
C8_Original_SameOutput ==
    (tcase.fn = "RandomTest" /\ Present("OPENCLOutput")) =>
       net["OPENCLOutput"] = net["Output"]

(* C8 amended: with a float image the two outputs are the same tensor;    *)
(* with a half image the GPU output is the CPU output narrowed to half,   *)
(* element for element, which the test's tolerance accepts.              *)
C8_BackendEquivalence ==
    /\ (tcase.fn = "RandomTest" /\ Present("OPENCLOutput")) =>
          /\ net["OPENCLOutput"].shape = net["Output"].shape
          /\ net["OPENCLOutput"].data = Narrowed(tcase.T, net["Output"].data)
          /\ tcase.T = "float" => net["OPENCLOutput"] = net["Output"]
    /\ (tcase.fn = "RandomTest" /\ tpc = "done") => verdict = "pass"

C8_Witness ==
    /\ tcase.fn = "RandomTest"
    /\ tpc = "done"
    /\ tcase.T = "half"
    /\ tcase.block_size = 2
    /\ tcase.input_shape = <<1, 2, 2, 20>>
    /\ net["OPENCLOutput"] # net["Output"]

(* C11: with block_size = 1 the operator is the identity: its output     *)
(* tensor (channel-first buffer on the CPU, image on the GPU) is its      *)
(* input tensor, shape and elements, and the channel-last output of the   *)
(* pipeline is the channel-last input (as the image's scalar type holds   *)
(* it).                                                                   *)
C11_BlockSizeOneIdentity ==
    tcase.block_size = 1 =>
       /\ Present("OutputNCHW") => net["OutputNCHW"] = net["InputNCHW"]
       /\ Present("OutputImage") => net["OutputImage"] = net["InputImage"]
       /\ Present("Output") => net["Output"] = net["Input"]
       /\ Present("OPENCLOutput") =>
             /\ net["OPENCLOutput"].shape = net["Input"].shape
             /\ \A n \in 0..(net["Input"].shape[1] - 1),
                   y \in 0..(net["Input"].shape[2] - 1),
                   x \in 0..(net["Input"].shape[3] - 1),
                   c \in 0..(net["Input"].shape[4] - 1) :
                   net["OPENCLOutput"].data[Offset(net["Input"].shape, n, y, x, c) + 1] =
                      CopyDataBetweenDiffType(tcase.T,
                         net["Input"].data[Offset(net["Input"].shape, n, y, x, c) + 1])

C11_Witness ==
    /\ tcase.block_size = 1
    /\ tcase.T = "float"
    /\ tcase.input_shape = <<2, 2, 2, 3>>
    /\ Present("Output")
    /\ Present("OPENCLOutput")
    /\ net["OPENCLOutput"].data = net["Input"].data
    /\ net["InputNCHW"].data # net["Input"].data

(* The test's input has a channel extent its block_size does not divide. *)
NonDivisible ==
    tcase.input_shape[4] % (tcase.block_size * tcase.block_size) # 0

OutputNames == {"OutputNCHW", "OutputImage", "Output", "OPENCLOutput"}

LastCallFailedChecked ==
    /\ calls.last.status \notin {"none", "MACE_SUCCESS"}
    /\ calls.last.op = "Create" \/ calls.last.phase \in {"warmup", "measured"}

CreateCalled == calls'.creates = calls.creates + 1

RunCalled == calls'.runs = calls.runs + 1

(* C3 as claimed: Create is invoked again only after a Create that      *)
(* returned the backend error; no other failure leads to a Create.      *)
C3_Original_RetryOnlyOnBackendError ==
    [][ (CreateCalled /\ calls.creates > 0) =>
            /\ calls.last.op = "Create"
            /\ calls.last.status = "MACE_RUNTIME_ERROR" ]_vars

(* C3 amended: Create is invoked again after every non-success status,  *)
(* of whatever kind, returned by Create or by a warm up or measured Run, *)
(* and in no other case (a Run failure in input_dir mode is dropped);    *)
(* no status is reported to the caller, RunModel returns true.           *)
C3_RecreateOnAnyFailure ==
    [][ /\ (CreateCalled /\ calls.creates > 0) => LastCallFailedChecked
        /\ LastCallFailedChecked => CreateCalled
        /\ (calls.last.op = "Run" /\ calls.last.phase = "dir") => ~CreateCalled
        /\ ret' \in {"none", "true", "abort"}
        /\ (ret' = "true" /\ ~flags.input_dir) =>
               /\ create_engine_status' = "MACE_SUCCESS"
               /\ warmup_status' = "MACE_SUCCESS"
               /\ run_status' \in {"none", "MACE_SUCCESS"} ]_vars

C3_Witness ==
    /\ pc = "Done"
    /\ ret = "true"
    /\ calls.creates = 3
    /\ calls.measured_runs = flags.round + 1
    /\ calls.warmup_runs = 2

(* C4: a failed Create is followed by another Create, Run is only        *)
(* invoked on the engine of a most recent Create that succeeded, and     *)
(* the outputs delivered in input_file mode are those of a successful    *)
(* Run on that engine.                                                   *)
C4_RunOnlyAfterSuccessfulCreate ==
    [][ /\ (create_engine_status \notin {"none", "MACE_SUCCESS"}) => CreateCalled
        /\ RunCalled =>
              /\ create_engine_status = "MACE_SUCCESS"
              /\ calls.last.op = "Create" => calls.last.status = "MACE_SUCCESS"
              /\ engine.ok
              /\ engine.id = calls.creates
        /\ (pc' = "Done" /\ ~flags.input_dir) =>
              /\ Len(files') = 1
              /\ files'[1].status = "MACE_SUCCESS"
              /\ files'[1].engine = engine'.id
              /\ files'[1].engine = calls'.creates
              /\ files'[1].run = calls'.runs ]_vars

(* The first Create failed, the second succeeded, every Run succeeded:  *)
(* the outputs written are those of the last Run, on the second engine. *)
C4_Witness ==
    /\ pc = "Done"
    /\ ~flags.input_dir
    /\ flags.round = 2
    /\ calls.creates = 2
    /\ calls.failures = 1
    /\ calls.runs = 3
    /\ files[1].engine = 2
    /\ files[1].run = 3

WarmupDone ==
    pc \in {"StartRounds", "RoundCheck", "Run", "RunRecreate", "WriteOutputs",
            "Report", "Done"}

(* C5: in input_file mode exactly one warm up Run has succeeded when    *)
(* the measured rounds start; it fills the same output buffers; its      *)
(* duration is the warm up latency and no part of the total the average  *)
(* is computed from.                                                     *)
C5_WarmupOnceAndSeparate ==
    ~flags.input_dir =>
       /\ WarmupDone =>
             /\ calls.warmup_ok = 1
             /\ warmup_status = "MACE_SUCCESS"
             /\ warmup_millis = calls.warmup_ok_micros
       /\ ~WarmupDone => (calls.warmup_ok = 0 /\ calls.measured_runs = 0)
       /\ pc = "StartRounds" =>
             (outputs.phase = "warmup" /\ outputs.status = "MACE_SUCCESS")
       /\ pc \in {"RoundCheck", "Run", "RunRecreate"} =>
             total_run_duration = calls.measured_ok_micros
       /\ (pc \in {"WriteOutputs", "Report", "Done"} /\ flags.round > 0) =>
             /\ total_run_duration = calls.measured_ok_micros
             /\ model_run_millis =
                   [num |-> calls.measured_ok_micros, den |-> 1000 * flags.round]
       /\ (pc = "Done" /\ flags.round <= 0) =>
             /\ files[1].phase = "warmup"
             /\ model_run_millis = NoAverage

C5_Witness ==
    /\ pc = "Done"
    /\ ~flags.input_dir
    /\ flags.round = 2
    /\ calls.warmup_runs = 2
    /\ calls.warmup_ok = 1
    /\ warmup_millis = 2
    /\ total_run_duration = 3

(* C15: no Create, failed or successful, and no Run modifies the weight   *)
(* region: the bytes handed to the latest Create, and those the next one  *)
(* will be handed, are the bytes handed to the first Create.              *)
C15_WeightsUnchanged ==
    calls.creates > 0 =>
       /\ calls.last_weights = calls.first_weights
       /\ model_weights_data = calls.first_weights

C15_Witness ==
    /\ calls.creates = 3
    /\ calls.runs = 3
    /\ calls.failures = 2
    /\ calls.last = [op |-> "Create", status |-> "MACE_SUCCESS", phase |-> "measured"]
    /\ calls.first_weights = <<3, 1, 4>>
    /\ driver = "bounded"

(* C16 as claimed: a Run whose duration is added to total_run_duration   *)
(* executes on an engine that has completed a successful Run since it    *)
(* was created: the first Run after any Create is never counted.         *)
C16_Original_CountedRunOnWarmEngine ==
    [][ (pc = "Run" /\ total_run_duration' # total_run_duration)
           => engine.ran >= 1 ]_vars

(* C17 as claimed: no output file is written from the outputs of a Run   *)
(* that returned a non-success status, in input_file and input_dir mode. *)
C17_Original_NoFileFromFailedRun ==
    \A k \in 1..Len(files) : files[k].status = "MACE_SUCCESS"

(* A measured Run is made in this step. *)
MeasuredRunCalled == RunCalled /\ calls'.last.phase = "measured"

(* C18: in input_file mode a successful measured Run adds its duration   *)
(* to total_run_duration and advances the round index by one, a failed   *)
(* one changes neither, and no other step after the rounds started       *)
(* changes them; so with round = R > 0 exactly R successful Runs are     *)
(* counted when the rounds are over, and the average is total / R        *)
(* (in milliseconds); with R <= 0 no measured Run is made and the        *)
(* reported average stays -1.                                            *)
C18_ExactlyRoundCountedRuns ==
    /\ [][ /\ MeasuredRunCalled =>
                IF calls'.last.status = "MACE_SUCCESS"
                THEN /\ i' = i + 1
                     /\ total_run_duration' > total_run_duration
                     /\ total_run_duration' - total_run_duration =
                           calls'.measured_ok_micros - calls.measured_ok_micros
                ELSE /\ i' = i
                     /\ total_run_duration' = total_run_duration
            /\ (~MeasuredRunCalled /\ pc # "StartRounds") =>
                  (i' = i /\ total_run_duration' = total_run_duration) ]_vars
    /\ [](~flags.input_dir =>
            /\ pc \in {"RoundCheck", "Run", "RunRecreate"} =>
                  (i = calls.measured_ok /\ i <= flags.round /\ flags.round > 0)
            /\ (pc \in {"WriteOutputs", "Report", "Done"} /\ flags.round > 0) =>
                  /\ calls.measured_ok = flags.round
                  /\ i = flags.round
                  /\ model_run_millis.num = total_run_duration
                  /\ model_run_millis.den = 1000 * flags.round
            /\ (pc \in {"WriteOutputs", "Report", "Done"} /\ flags.round <= 0) =>
                  /\ calls.measured_runs = 0
                  /\ model_run_millis.num = -1
                  /\ model_run_millis.den = 1)

C18_Witness ==
    /\ pc = "Done"
    /\ ret = "true"
    /\ ~flags.input_dir
    /\ flags.round = 2
    /\ calls.measured_runs = 4
    /\ calls.measured_ok = 2
    /\ total_run_duration = 3
    /\ model_run_millis = [num |-> 3, den |-> 2000]

(* C20 as claimed: in input_dir mode, when Run is called for a matching  *)
(* directory entry every input tensor has been refilled from that        *)
(* entry's file with as many elements as the product of its declared     *)
(* shape.                                                                *)
C20_Original_RefillWholeTensor ==
    pc = "DirRun" =>
       \A k \in DOMAIN inputs :
          /\ inputs[k].from = "input_dir"
          /\ inputs[k].elements = Accumulate(flags.input_shape[k], 1)

RetryLoops == {"Create", "WarmupRecreate", "RunRecreate"}

(* C19: when no retried call fails for ever RunModel reaches its end;    *)
(* and a failed Create, however many came before it, leaves RunModel in  *)
(* the same retry loop without a return value: the loops count nothing   *)
(* and end only on success.                                              *)
C19_TerminatesUnderFairSuccess ==
    /\ <>(pc = "Done")
    /\ [][ (pc \in RetryLoops /\ create_engine_status' # "MACE_SUCCESS")
              => (pc' = pc /\ ret' = "none") ]_vars

C19_Witness ==
    /\ pc = "Done"
    /\ ret = "true"
    /\ driver = "flaky"
    /\ flags.round = 2
    /\ calls.failures = MaxFailures + 1
    /\ calls.creates = MaxFailures + 1
    /\ calls.measured_ok = 2

(* C23 as claimed: with benchmarking every metadata object that        *)
(* StatMetadata aggregated was handed to exactly one Run call, the       *)
(* successful one of its round; without benchmarking no Run is handed    *)
(* metadata and StatMetadata is never called.                            *)
C23_Original_MetadataHandedOnce ==
    /\ \A k \in 1..Len(op_stat) : op_stat[k].handed = 1
    /\ ~flags.benchmark => (op_stat = <<>> /\ metadata.handed = 0)

(* ================================================================== *)
(* Graph & Scheduler: engine creation steps 2 and 3, and the walk of   *)
(* one Run (specification SpecSched)                                   *)
(* ================================================================== *)
Layouts == {"NHWC", "NCHW"}

(* Nodes with no producer left are removed until none can be: what is  *)
(* left lies on a cycle.                                                *)
RECURSIVE Peel(_, _)
Peel(producers, left) ==
    LET free == { k \in left : producers[k] \cap left = {} }
    IN IF free = {} THEN left ELSE Peel(producers, left \ free)

(* Graphs of n nodes, node k at serialized position k: producers[k] are *)
(* the nodes producing k's input tensors (no cycle, the serialized      *)
(* order need not be topological), layout[k] the layout k works in.     *)
Graphs ==
    UNION { { [n |-> n, producers |-> pr, layout |-> la] :
                 pr \in { f \in [1..n -> SUBSET (1..n)] : Peel(f, 1..n) = {} },
                 la \in [1..n -> Layouts] }
            : n \in 1..MaxNodes }

Min(S) == CHOOSE m \in S : \A k \in S : m <= k

Max(S) == CHOOSE m \in S : \A k \in S : m >= k

RECURSIVE Ascending(_)
Ascending(S) ==
    IF S = {} THEN <<>> ELSE <<Min(S)>> \o Ascending(S \ {Min(S)})

OpNode(k) == [kind |-> "op", node |-> k, from |-> 0]

(* The synthetic node converting p's output to the layout c expects. *)
TransformNode(p, c) == [kind |-> "transform", node |-> c, from |-> p]

(* Producers of c whose layout differs from c's. *)
Mismatched(g, c) == { p \in g.producers[c] : g.layout[p] # g.layout[c] }

(* Serialized nodes not yet ordered whose producers all are. *)
Ready(g, placed) ==
    { k \in (1..g.n) \ placed : g.producers[k] \subseteq placed }

(* Step 3: every mismatched edge gets its transform node, placed        *)
(* directly before the consumer.                                        *)
RECURSIVE InsertTransforms(_, _)
InsertTransforms(g, ops) ==
    IF ops = <<>> THEN <<>>
    ELSE [m \in 1..Cardinality(Mismatched(g, Head(ops))) |->
             TransformNode(Ascending(Mismatched(g, Head(ops)))[m], Head(ops))]
         \o <<OpNode(Head(ops))>>
         \o InsertTransforms(g, Tail(ops))

InitSched ==
    /\ graph \in Graphs
    /\ topo = <<>>
    /\ order = <<>>
    /\ spc = "TopologicalOrder"
    /\ dispatched = <<>>
    /\ sched_status = "none"
    /\ OpsIdle
    /\ HarnessIdle
    /\ ParseIdle
    /\ MainIdle

(* Faulty variant of KahnStep: ties are broken by the largest           *)
(* serialized position.                                                 *)
KahnStep_LargestFirst ==
    /\ spc = "TopologicalOrder"
    /\ Len(topo) < graph.n
    /\ topo' = Append(topo, Max(Ready(graph, Range(topo))))
    /\ UNCHANGED <<graph, order, spc, dispatched, sched_status, opsVars, runVars,
                   parseVars, mainVars>>

(* Step 2, one step of Kahn's algorithm: of the nodes whose producers   *)
(* are all ordered, the one at the smallest serialized position is      *)
(* ordered next.                                                        *)
KahnStep ==
    /\ spc = "TopologicalOrder"
    /\ Len(topo) < graph.n
    /\ topo' = Append(topo, Min(Ready(graph, Range(topo))))
    /\ UNCHANGED <<graph, order, spc, dispatched, sched_status, opsVars, runVars,
                   parseVars, mainVars>>

(* Step 3, once all nodes are ordered; the engine is then ready to Run. *)
InsertTransformNodes ==
    /\ spc = "TopologicalOrder"
    /\ Len(topo) = graph.n
    /\ order' = InsertTransforms(graph, topo)
    /\ spc' = "Run"
    /\ UNCHANGED <<graph, topo, dispatched, sched_status, opsVars, runVars,
                   parseVars, mainVars>>

(* Faulty variant of Dispatch: after a failed node the walk goes on;    *)
(* the status of the latest failure is kept.                            *)
Dispatch_KeepsGoing ==
    /\ spc = "Run"
    /\ Len(dispatched) < Len(order)
    /\ \E status \in StatusCodes :
          /\ dispatched' = Append(dispatched,
                 [node |-> order[Len(dispatched) + 1], status |-> status])
          /\ sched_status' =
                IF status # "MACE_SUCCESS" THEN status ELSE sched_status
          /\ spc' = IF Len(dispatched') = Len(order) /\ sched_status' # "none"
                    THEN "Returned" ELSE "Run"
    /\ UNCHANGED <<graph, topo, order, opsVars, runVars,
                   parseVars, mainVars>>

(* The walk of one Run: the next node of the order is dispatched and    *)
(* runs to its status; a failure is returned to the Engine at once.     *)
Dispatch ==
    /\ spc = "Run"
    /\ Len(dispatched) < Len(order)
    /\ \E status \in StatusCodes :
          /\ dispatched' = Append(dispatched,
                 [node |-> order[Len(dispatched) + 1], status |-> status])
          /\ IF status # "MACE_SUCCESS"
             THEN sched_status' = status /\ spc' = "Returned"
             ELSE UNCHANGED <<sched_status, spc>>
    /\ UNCHANGED <<graph, topo, order, opsVars, runVars,
                   parseVars, mainVars>>

(* The order is walked to its end: the Run succeeded. *)
ReturnSuccess ==
    /\ spc = "Run"
    /\ Len(dispatched) = Len(order)
    /\ sched_status' = "MACE_SUCCESS"
    /\ spc' = "Returned"
    /\ UNCHANGED <<graph, topo, order, dispatched, opsVars, runVars,
                   parseVars, mainVars>>

NextSched ==
    \/ KahnStep
    \/ InsertTransformNodes
    \/ Dispatch
    \/ ReturnSuccess

SpecSched == InitSched /\ [][NextSched]_vars

(* ================================================================== *)
(* Properties of the Scheduler (specification SpecSched)               *)
(* ================================================================== *)
(* C13: a node that fails is the last node dispatched in its Run: the  *)
(* Scheduler has returned, with that node's status, and every node      *)
(* dispatched before it succeeded; a Run is successful only when every  *)
(* node of the order was dispatched and succeeded; and after the return *)
(* nothing more is dispatched.                                          *)
C13_FirstFailureAborts ==
    /\ [](\A j \in 1..Len(dispatched) :
            dispatched[j].status # "MACE_SUCCESS" =>
               /\ j = Len(dispatched)
               /\ spc = "Returned"
               /\ sched_status = dispatched[j].status)
    /\ [](sched_status = "MACE_SUCCESS" =>
            /\ Len(dispatched) = Len(order)
            /\ \A j \in 1..Len(dispatched) : dispatched[j].status = "MACE_SUCCESS")
    /\ [](sched_status \notin {"none", "MACE_SUCCESS"} =>
            dispatched[Len(dispatched)].status = sched_status)
    /\ [][ spc = "Returned" =>
              (dispatched' = dispatched /\ sched_status' = sched_status) ]_vars

C13_Witness ==
    /\ spc = "Returned"
    /\ sched_status = "MACE_RUNTIME_ERROR"
    /\ Len(dispatched) = 2
    /\ Len(order) = 5
    /\ dispatched[2].node.kind = "transform"

(* The nodes dispatched before the j-th dispatch of this Run. *)
Before(j) == { dispatched[m].node : m \in 1..(j - 1) }

(* C14: the Scheduler dispatches the nodes of its order one at a time,  *)
(* none twice; a node is dispatched only after each producer of its     *)
(* inputs, and the transform node of each such edge whose layouts       *)
(* differ, has completed; a transform node runs after its producer and  *)
(* before its consumer; and when a serialized node is dispatched every  *)
(* not yet dispatched node at a smaller serialized position still waits *)
(* for one of its producers.                                            *)
C14_TopologicalDispatch ==
    /\ [][ \/ dispatched' = dispatched
           \/ /\ Len(dispatched') = Len(dispatched) + 1
              /\ SubSeq(dispatched', 1, Len(dispatched)) = dispatched ]_vars
    /\ [](\A j \in 1..Len(dispatched) :
            LET nd == dispatched[j].node
            IN /\ nd = order[j]
               /\ nd \notin Before(j)
               /\ \A m \in 1..(j - 1) : dispatched[m].status = "MACE_SUCCESS"
               /\ IF nd.kind = "op"
                  THEN /\ \A p \in graph.producers[nd.node] :
                            /\ OpNode(p) \in Before(j)
                            /\ graph.layout[p] # graph.layout[nd.node] =>
                                  TransformNode(p, nd.node) \in Before(j)
                       /\ \A k \in 1..(nd.node - 1) :
                            OpNode(k) \notin Before(j) =>
                               \E p \in graph.producers[k] : OpNode(p) \notin Before(j)
                  ELSE /\ nd.from \in graph.producers[nd.node]
                       /\ graph.layout[nd.from] # graph.layout[nd.node]
                       /\ OpNode(nd.from) \in Before(j)
                       /\ OpNode(nd.node) \notin Before(j))
    /\ [](sched_status = "MACE_SUCCESS" =>
            /\ \A k \in 1..graph.n : OpNode(k) \in Before(Len(dispatched) + 1)
            /\ Len(dispatched) =
                  graph.n + Cardinality({ e \in (1..graph.n) \X (1..graph.n) :
                                             e[1] \in Mismatched(graph, e[2]) }))

C14_Witness ==
    /\ sched_status = "MACE_SUCCESS"
    /\ graph.n = 3
    /\ graph.producers = <<{3}, {}, {2}>>
    /\ graph.layout = <<"NCHW", "NHWC", "NHWC">>
    /\ Len(dispatched) = 4
    /\ dispatched[3].node = TransformNode(3, 1)

(* ================================================================== *)
(* ParseShape and the element counts of a shape (mace_run.cc)          *)
(* ================================================================== *)
(* A std::string is the sequence of its characters.                    *)
MaxStrLen == 4      \* characters of a shape string drawn from Chars

Digits == {"0", "1", "2", "3", "4", "5", "6", "7", "8", "9"}

Chars == {"0", "1", "2", ","}

DigitValue(c) ==
    CASE c = "0" -> 0 [] c = "1" -> 1 [] c = "2" -> 2 [] c = "3" -> 3
      [] c = "4" -> 4 [] c = "5" -> 5 [] c = "6" -> 6 [] c = "7" -> 7
      [] c = "8" -> 8 [] c = "9" -> 9

RECURSIVE Strings(_)
Strings(n) ==
    IF n = 0 THEN {<<>>}
    ELSE Strings(n - 1) \cup { Append(s, c) : s \in Strings(n - 1), c \in Chars }

(* "1,224,224,3" of the usage comment, and two shapes whose extents     *)
(* each fit an int while their product does not.                        *)
UsageShape == <<"1", ",", "2", "2", "4", ",", "2", "2", "4", ",", "3">>

LargeShapes ==
    { <<"6", "5", "5", "3", "6", ",", "6", "5", "5", "3", "6">>,
      <<"1", ",", "4", "6", "3", "4", "1", ",", "4", "6", "3", "4", "1">> }

ShapeStrings == Strings(MaxStrLen) \cup {UsageShape} \cup LargeShapes

(* atoi(tmp.data()): the value of the leading decimal digits, 0 when    *)
(* there is none.                                                       *)
RECURSIVE AtoiFrom(_, _)
AtoiFrom(s, acc) ==
    IF s = <<>> \/ Head(s) \notin Digits THEN acc
    ELSE AtoiFrom(Tail(s), acc * 10 + DigitValue(Head(s)))

atoi(s) == AtoiFrom(s, 0)

npos == -1

(* tmp.find(","): the 0-based offset of the first comma, or npos. *)
find(s) ==
    IF \E k \in 1..Len(s) : s[k] = ","
    THEN (CHOOSE k \in 1..Len(s) :
             /\ s[k] = ","
             /\ \A m \in 1..(k - 1) : s[m] # ",") - 1
    ELSE npos

(* tmp.substr(pos) *)
substr(s, pos) == SubSeq(s, pos + 1, Len(s))

Int64Bytes == 8     \* sizeof(int64_t)

(* The product of the extents, exact, as WideBytes bytes. *)
RECURSIVE ExactProduct(_)
ExactProduct(shape) ==
    IF shape = <<>> THEN ToBytes(1, WideBytes)
    ELSE MulBytes(ToBytes(Head(shape), WideBytes), ExactProduct(Tail(shape)), WideBytes)

(* d, a number of WideBytes bytes, is the sign extension of an int64_t. *)
FitsInt64(d) ==
    \/ d[Int64Bytes] < 128 /\ \A k \in (Int64Bytes + 1)..WideBytes : d[k] = 0
    \/ d[Int64Bytes] >= 128 /\ \A k \in (Int64Bytes + 1)..WideBytes : d[k] = ByteBase - 1

InitParse ==
    /\ str \in ShapeStrings
    /\ tmp = str
    /\ shape_vec = <<>>
    /\ ppc = "Loop"
    /\ sizes = NoSizes
    /\ OpsIdle
    /\ HarnessIdle
    /\ SchedIdle
    /\ MainIdle

(* Faulty variant of ParseShapeStep: the empty rest after a trailing    *)
(* comma is parsed as one more extent.                                  *)
ParseShapeStep_TrailingExtent ==
    /\ ppc = "Loop"
    /\ tmp # <<>>
    /\ LET dim == atoi(tmp)
           next_offset == find(tmp)
       IN IF next_offset = npos
          THEN /\ shape_vec' = Append(shape_vec, dim)
               /\ ppc' = "Parsed"
               /\ tmp' = tmp
          ELSE /\ tmp' = substr(tmp, next_offset + 1)
               /\ shape_vec' = IF tmp' = <<>>
                               THEN Append(Append(shape_vec, dim), atoi(tmp'))
                               ELSE Append(shape_vec, dim)
               /\ ppc' = ppc
    /\ UNCHANGED <<str, sizes, opsVars, runVars, schedVars, mainVars>>

(* One pass of while (!tmp.empty()): lines 55-64. *)
ParseShapeStep ==
    /\ ppc = "Loop"
    /\ tmp # <<>>
    /\ LET dim == atoi(tmp)
           next_offset == find(tmp)
       IN /\ shape_vec' = Append(shape_vec, dim)
          /\ IF next_offset = npos
             THEN /\ ppc' = "Parsed"
                  /\ tmp' = tmp
             ELSE /\ tmp' = substr(tmp, next_offset + 1)
                  /\ ppc' = ppc
    /\ UNCHANGED <<str, sizes, opsVars, runVars, schedVars, mainVars>>

(* The loop condition fails: tmp is empty. *)
ParseShapeReturn ==
    /\ ppc = "Loop"
    /\ tmp = <<>>
    /\ ppc' = "Parsed"
    /\ UNCHANGED <<str, tmp, shape_vec, sizes, opsVars, runVars, schedVars,
                   mainVars>>

(* RunModel and WriteOutputDataToFile count the elements of the parsed  *)
(* shape: the input tensor's size (lines 409-411), the bytes of the     *)
(* output buffer (lines 422-424) and the elements written (lines        *)
(* 227-229).                                                            *)
CountElements ==
    /\ ppc = "Parsed"
    /\ sizes' = [input_tensor_size |-> Accumulate(shape_vec, 1),
                 output_buffer |-> Accumulate(shape_vec, 4),
                 output_size |-> Accumulate(shape_vec, 1)]
    /\ ppc' = "Counted"
    /\ UNCHANGED <<str, tmp, shape_vec, opsVars, runVars, schedVars, mainVars>>

NextParse ==
    \/ ParseShapeStep
    \/ ParseShapeReturn
    \/ CountElements

SpecParse == InitParse /\ [][NextParse]_vars

(* ------------------------------------------------------------------ *)
(* Properties of ParseShape and of the counts                          *)
(* ------------------------------------------------------------------ *)
(* The comma-separated fields of s: every character is scanned once,   *)
(* a comma closes the current field.                                   *)
RECURSIVE Scan(_, _)
Scan(s, cur) ==
    IF s = <<>> THEN <<cur>>
    ELSE IF Head(s) = "," THEN <<cur>> \o Scan(Tail(s), <<>>)
    ELSE Scan(Tail(s), Append(cur, Head(s)))

(* The fields of s without the empty field that follows a trailing     *)
(* comma or makes up the empty string.                                 *)
Fields(s) ==
    LET all == Scan(s, <<>>)
    IN IF all[Len(all)] = <<>> THEN SubSeq(all, 1, Len(all) - 1) ELSE all

(* The integer a field of decimal digits writes; an empty field is 0. *)
RECURSIVE NumeralValue(_)
NumeralValue(f) ==
    IF f = <<>> THEN 0
    ELSE NumeralValue(SubSeq(f, 1, Len(f) - 1)) * 10 + DigitValue(f[Len(f)])

(* C25: when ParseShape has returned, the shape holds, in order, the   *)
(* integer value of each comma-separated field of its argument:        *)
(* "1,224,224,3" gives [1,224,224,3], the empty string gives the empty *)
(* shape, and a trailing comma adds no extent after the last field.    *)
C25_ParseShapeFields ==
    ppc \in {"Parsed", "Counted"} =>
        /\ Len(shape_vec) = Len(Fields(str))
        /\ \A k \in 1..Len(shape_vec) : shape_vec[k] = NumeralValue(Fields(str)[k])
        /\ str = UsageShape => shape_vec = <<1, 224, 224, 3>>
        /\ str = <<>> => shape_vec = <<>>
        /\ (str # <<>> /\ str[Len(str)] = ",") =>
              Len(shape_vec) = Cardinality({ k \in 1..Len(str) : str[k] = "," })

C25_Witness ==
    /\ ppc = "Parsed"
    /\ str = <<"1", ",", "2", ",">>
    /\ shape_vec = <<1, 2>>

(* C21 as stated: whenever the product of the extents fits a signed    *)
(* 64-bit integer, the count of input elements and the count of        *)
(* written output elements equal it, and the output buffer holds four  *)
(* bytes for each of them.                                             *)
C21_Original_CountIsProduct ==
    (ppc = "Counted" /\ FitsInt64(ExactProduct(shape_vec))) =>
        /\ ToBytes(sizes.input_tensor_size, WideBytes) = ExactProduct(shape_vec)
        /\ ToBytes(sizes.output_size, WideBytes) = ExactProduct(shape_vec)
        /\ FitsInt64(ExactProduct(<<4>> \o shape_vec)) =>
              ToBytes(sizes.output_buffer, WideBytes) = ExactProduct(<<4>> \o shape_vec)

(* ================================================================== *)
(* Main and main (mace_run.cc)                                         *)
(* ================================================================== *)
(* A flag holding a list is the sequence of its elements and of the    *)
(* delimiters between them: "float32,int32" is <<"float32", ",",       *)
(* "int32">>.  A shape is one element, ParseShape is modelled above.   *)
MaxRestart == 2     \* largest FLAGS_restart_round

NodeFlags == {<<>>, <<"a">>, <<"a", ",", "b">>}

ShapeFlags == {<<>>, <<"1,2,2,3">>, <<"1,2,2,3", ":", "1,4">>}

DataTypeFlags == {<<"float32">>, <<"float32", ",", "int32">>}

DataFormatFlags == {<<"NHWC">>, <<"NHWC", ",", "NCHW">>}

(* The command lines: lines 102-125 and 161. *)
CommandLines ==
    [input_node : NodeFlags, output_node : NodeFlags,
     input_shape : ShapeFlags, output_shape : ShapeFlags,
     input_data_type : DataTypeFlags, output_data_type : DataTypeFlags,
     input_data_format : DataFormatFlags, output_data_format : DataFormatFlags,
     restart_round : (-1)..MaxRestart]

(* str.find(delims): the 0-based offset of the first delimiter, or npos. *)
FindFirst(s, delims) ==
    IF \E k \in 1..Len(s) : s[k] = delims
    THEN (CHOOSE k \in 1..Len(s) :
             /\ s[k] = delims
             /\ \A m \in 1..(k - 1) : s[m] # delims) - 1
    ELSE npos

(* Split(str, delims): the pieces between the delimiters, none for the  *)
(* empty string and none after a trailing delimiter.                    *)
RECURSIVE Split(_, _)
Split(s, delims) ==
    IF s = <<>> THEN <<>>
    ELSE IF FindFirst(s, delims) = npos THEN <<s>>
    ELSE <<SubSeq(s, 1, FindFirst(s, delims))>>
         \o Split(substr(s, FindFirst(s, delims) + 1), delims)

input_names == Split(argv.input_node, ",")

output_names == Split(argv.output_node, ",")

input_count == Len(Split(argv.input_shape, ":"))

output_count == Len(Split(argv.output_shape, ":"))

raw_input_data_types == Split(argv.input_data_type, ",")

raw_output_data_types == Split(argv.output_data_type, ",")

raw_input_data_formats == Split(argv.input_data_format, ",")

raw_output_data_formats == Split(argv.output_data_format, ",")

(* The number of k < count with no element raw[k]: reads of operator[]  *)
(* past the end of raw.                                                 *)
PastEnd(raw, count) == IF count > Len(raw) THEN count - Len(raw) ELSE 0

PastEndReads ==
    PastEnd(raw_input_data_types, input_count)
    + PastEnd(raw_output_data_types, output_count)
    + PastEnd(raw_input_data_formats, input_count)
    + PastEnd(raw_output_data_formats, output_count)

InitMain ==
    /\ argv \in CommandLines
    /\ mpc = "Names"
    /\ restart_i = 0
    /\ main_ret = FALSE
    /\ main_result = "none"
    /\ exit_status = "none"
    /\ past_end = 0
    /\ OpsIdle
    /\ HarnessIdle
    /\ SchedIdle
    /\ ParseIdle

(* Lines 620-625: the names, return 0 when a list is empty. *)
CheckNames ==
    /\ mpc = "Names"
    /\ IF input_names = <<>> \/ output_names = <<>>
       THEN /\ main_result' = "0"
            /\ mpc' = "Returned"
       ELSE /\ main_result' = main_result
            /\ mpc' = "Shapes"
    /\ UNCHANGED <<argv, restart_i, main_ret, exit_status, past_end, opsVars,
                   runVars, schedVars, parseVars>>

(* Lines 667-685: the shapes are split and parsed, return 0 when their  *)
(* number is not the number of names.                                   *)
CheckShapes ==
    /\ mpc = "Shapes"
    /\ IF Len(input_names) # input_count \/ Len(output_names) # output_count
       THEN /\ main_result' = "0"
            /\ mpc' = "Returned"
       ELSE /\ main_result' = main_result
            /\ mpc' = "Types"
    /\ UNCHANGED <<argv, restart_i, main_ret, exit_status, past_end, opsVars,
                   runVars, schedVars, parseVars>>

(* Lines 687-710: raw_input_data_types[k] and the three other lists are *)
(* read for every k below the shape counts.  A read past the end of a   *)
(* list is undefined: the process is killed, or it goes on with         *)
(* whatever the read produced.                                          *)
ParseTypesAndFormats ==
    /\ mpc = "Types"
    /\ past_end' = PastEndReads
    /\ \E outcome \in IF PastEndReads > 0 THEN {"killed", "goes on"} ELSE {"goes on"} :
          IF outcome = "killed"
          THEN /\ mpc' = "Exited"
               /\ exit_status' = "SIGSEGV"
          ELSE /\ mpc' = "Restart"
               /\ exit_status' = exit_status
    /\ UNCHANGED <<argv, restart_i, main_ret, main_result, opsVars, runVars,
                   schedVars, parseVars>>

(* Lines 718-724: ret = RunModel(...) of one restart round. *)
RestartRound ==
    /\ mpc = "Restart"
    /\ restart_i < argv.restart_round
    /\ \E result \in BOOLEAN : main_ret' = result
    /\ restart_i' = restart_i + 1
    /\ UNCHANGED <<argv, mpc, main_result, exit_status, past_end, opsVars,
                   runVars, schedVars, parseVars>>

(* Lines 725-728: if (ret) return 0; return -1; *)
MainReturn ==
    /\ mpc = "Restart"
    /\ restart_i >= argv.restart_round
    /\ main_result' = IF main_ret THEN "0" ELSE "-1"
    /\ mpc' = "Returned"
    /\ UNCHANGED <<argv, restart_i, main_ret, exit_status, past_end, opsVars,
                   runVars, schedVars, parseVars>>

(* Lines 735-737: main calls Main, drops what it returns and reaches    *)
(* its closing brace, which is return 0.                                *)
main ==
    /\ mpc = "Returned"
    /\ exit_status' = "0"
    /\ mpc' = "Exited"
    /\ UNCHANGED <<argv, restart_i, main_ret, main_result, past_end, opsVars,
                   runVars, schedVars, parseVars>>

NextMain ==
    \/ CheckNames
    \/ CheckShapes
    \/ ParseTypesAndFormats
    \/ RestartRound
    \/ MainReturn
    \/ main

SpecMain == InitMain /\ [][NextMain]_vars

(* ------------------------------------------------------------------ *)
(* Properties of Main                                                  *)
(* ------------------------------------------------------------------ *)
(* The flags passed the checks of the names and of the shape counts. *)
PassedCountCheck ==
    /\ input_names # <<>>
    /\ output_names # <<>>
    /\ Len(input_names) = input_count
    /\ Len(output_names) = output_count

(* C22 as stated: for flags that pass the name and shape count checks, *)
(* the data type and data format lists have an element at every index  *)
(* below the shape counts, and Main reads no element past their end.   *)
C22_Original_NoReadPastEnd ==
    /\ past_end = 0
    /\ (mpc \in {"Types", "Restart"} /\ PassedCountCheck) =>
          /\ input_count <= Len(raw_input_data_types)
          /\ output_count <= Len(raw_output_data_types)
          /\ input_count <= Len(raw_input_data_formats)
          /\ output_count <= Len(raw_output_data_formats)

(* The arguments are well formed: they pass the checks and every list  *)
(* has an element for every shape.                                     *)
WellFormed ==
    /\ PassedCountCheck
    /\ PastEndReads = 0

(* C24 as stated: with well-formed arguments, when the process has     *)
(* exited, Main returned -1 exactly when the last RunModel returned    *)
(* false or no round ran, the exit status is then not 0, and it is 0   *)
(* when the last RunModel returned true.                               *)
C24_Original_FailureExitStatus ==
    (mpc = "Exited" /\ WellFormed) =>
        /\ main_result = (IF main_ret THEN "0" ELSE "-1")
        /\ argv.restart_round <= 0 => main_result = "-1"
        /\ main_result = "-1" => exit_status # "0"
        /\ main_ret => exit_status = "0"

====
